---- MODULE Spec2Model ----
(***************************************************************************)
(* Workflow assembly and result retrieval of                               *)
(* abiflows/fireworks/workflows/abinit_workflows.py.                       *)
(*                                                                         *)
(* Python mappings are objects: a name holds a reference, `dict(spec)`     *)
(* makes a new object, `spec[k] = v` writes through the reference.  The    *)
(* model keeps the mappings of interest (the caller's spec, the            *)
(* constructor's working spec, every container's spec) in an object store  *)
(* `heap`, a sequence indexed by address, so that sharing is observable.   *)
(* Strings that the code slices, splits or parses (wf_task_index) are      *)
(* sequences of one-character strings.                                     *)
(***************************************************************************)
EXTENDS Integers, Sequences, FiniteSets, TLC

VARIABLES
    heap,       \* object store: address -> mapping (function from keys)
    call,       \* the constructor call: builder, arguments, outcome
    fws,        \* the containers, in creation order (fw_id = -position)
    links,      \* wf.links: fw_id -> set of successor fw_ids
    metadata,   \* wf.metadata
    result      \* outcome of the last result-retrieval call

vars == <<heap, call, fws, links, metadata, result>>

-----------------------------------------------------------------------------
(* Bounds of the model *)

\* number of containers appended after construction
MaxAppend == 2

\* number of add_metadata calls made on a workflow
MaxAddMetadata == 2

-----------------------------------------------------------------------------
(* Mappings *)

EmptyDict == [k \in {} |-> TRUE]

Put(d, k, v) == [x \in (DOMAIN d) \cup {k} |-> IF x = k THEN v ELSE d[x]]

\* d.update(e)
Update(d, e) == [x \in (DOMAIN d) \cup (DOMAIN e) |-> IF x \in DOMAIN e THEN e[x] ELSE d[x]]

\* None as a reference
NoneRef == 0

\* a new object holding d; its address is Len(h) + 1
Alloc(h, d) == [heap |-> Append(h, d), ref |-> Len(h) + 1]

\* o[k] = v through the reference
Store(h, ref, k, v) == [h EXCEPT ![ref] = Put(@, k, v)]

-----------------------------------------------------------------------------
(* Strings *)

\* A string is a sequence of characters, a character a one-character
\* string; a character outside printable ASCII that a string of this module
\* cannot hold is written by its code point, "U+0663"

Digits == <<"0", "1", "2", "3", "4", "5", "6", "7", "8", "9">>

\* The interpreters that run the module (from __future__, six): Python 2.7
\* and the Python 3 releases from 3.3 on.  What int() makes of a text
\* depends on how the interpreter was built:
\*   major          Python 2 or Python 3
\*   unicode        the version of the Unicode character database, as
\*                  major * 10 + minor
\*   underscores    digits may be grouped by underscores (3.6 and later)
\*   max_str_digits int() has a limit on the number of digits (3.11 and
\*                  later, and 3.7 to 3.10 from the security releases
\*                  3.7.14, 3.8.14, 3.9.14, 3.10.7; the releases before
\*                  them convert as these do with the limit lifted)
\*   ucs2           a text is kept in 16-bit units (a narrow build of
\*                  Python 2), a character beyond U+FFFF as two surrogates
\* An interpreter is named by its release series.
\* Two more things are settled when the interpreter is started, not when
\* it is built: whether assert statements are compiled (they are not under
\* -O or PYTHONOPTIMIZE), and the digit limit itself
\* (sys.get_int_max_str_digits(), set by PYTHONINTMAXSTRDIGITS,
\* -X int_max_str_digits or sys.set_int_max_str_digits).
Builds ==
    { [python |-> "2.7", major |-> 2, unicode |-> 52,
       underscores |-> FALSE, max_str_digits |-> FALSE, ucs2 |-> FALSE],
      [python |-> "2.7-ucs2", major |-> 2, unicode |-> 52,
       underscores |-> FALSE, max_str_digits |-> FALSE, ucs2 |-> TRUE],
      [python |-> "3.3", major |-> 3, unicode |-> 61,
       underscores |-> FALSE, max_str_digits |-> FALSE, ucs2 |-> FALSE],
      [python |-> "3.4", major |-> 3, unicode |-> 63,
       underscores |-> FALSE, max_str_digits |-> FALSE, ucs2 |-> FALSE],
      [python |-> "3.5", major |-> 3, unicode |-> 80,
       underscores |-> FALSE, max_str_digits |-> FALSE, ucs2 |-> FALSE],
      [python |-> "3.6", major |-> 3, unicode |-> 90,
       underscores |-> TRUE, max_str_digits |-> FALSE, ucs2 |-> FALSE],
      [python |-> "3.7", major |-> 3, unicode |-> 110,
       underscores |-> TRUE, max_str_digits |-> TRUE, ucs2 |-> FALSE],
      [python |-> "3.8", major |-> 3, unicode |-> 121,
       underscores |-> TRUE, max_str_digits |-> TRUE, ucs2 |-> FALSE],
      [python |-> "3.9", major |-> 3, unicode |-> 130,
       underscores |-> TRUE, max_str_digits |-> TRUE, ucs2 |-> FALSE],
      [python |-> "3.10", major |-> 3, unicode |-> 130,
       underscores |-> TRUE, max_str_digits |-> TRUE, ucs2 |-> FALSE],
      [python |-> "3.11", major |-> 3, unicode |-> 140,
       underscores |-> TRUE, max_str_digits |-> TRUE, ucs2 |-> FALSE],
      [python |-> "3.12", major |-> 3, unicode |-> 150,
       underscores |-> TRUE, max_str_digits |-> TRUE, ucs2 |-> FALSE],
      [python |-> "3.13", major |-> 3, unicode |-> 151,
       underscores |-> TRUE, max_str_digits |-> TRUE, ucs2 |-> FALSE],
      [python |-> "3.14", major |-> 3, unicode |-> 160,
       underscores |-> TRUE, max_str_digits |-> TRUE, ucs2 |-> FALSE] }

Interpreters == { b.python : b \in Builds }

\* how the interpreter `python` was built
Build == [python \in Interpreters |-> CHOOSE b \in Builds : b.python = python]

Major(python) == Build[python].major

UnicodeVersion(python) == Build[python].unicode

\* `1_000` is a number to the interpreter
HasUnderscores(python) == Build[python].underscores

\* the longest run of digits int() converts unless the limit is set
\* otherwise (sys.int_info.default_max_str_digits)
MaxStrDigits == 4300

\* the smallest limit that can be set (sys.int_info.str_digits_check_threshold)
StrDigitsCheckThreshold == 640

\* the setting that lifts the limit
NoLimit == 0

\* the interpreters that have the limit
HasMaxStrDigits(python) == Build[python].max_str_digits

\* the values sys.get_int_max_str_digits() may have when the interpreter
\* `python` runs the module: the default, the smallest limit, no limit
IntMaxStrDigits(python) ==
    IF HasMaxStrDigits(python) THEN {MaxStrDigits, StrDigitsCheckThreshold, NoLimit}
    ELSE {NoLimit}

\* sys.flags.optimize > 0: the interpreter was started with -O
Optimize == BOOLEAN

\* a character beyond U+FFFF, which a narrow build holds as two
\* surrogates, neither of them a digit
IsSurrogatePair(c, python) == Build[python].ucs2 /\ Len(c) > 6

\* no retrieval call made, no interpreter to name
NoInterpreter == "none"

\* the other decimal digits (category Nd), in blocks of ten from zero to
\* nine, each with the Unicode version from which the whole block is there
DigitBlocks ==
    {
      [since |-> 11, digits |->
         <<"U+0660", "U+0661", "U+0662", "U+0663", "U+0664",
           "U+0665", "U+0666", "U+0667", "U+0668", "U+0669">>],
      [since |-> 11, digits |->
         <<"U+06F0", "U+06F1", "U+06F2", "U+06F3", "U+06F4",
           "U+06F5", "U+06F6", "U+06F7", "U+06F8", "U+06F9">>],
      [since |-> 50, digits |->
         <<"U+07C0", "U+07C1", "U+07C2", "U+07C3", "U+07C4",
           "U+07C5", "U+07C6", "U+07C7", "U+07C8", "U+07C9">>],
      [since |-> 11, digits |->
         <<"U+0966", "U+0967", "U+0968", "U+0969", "U+096A",
           "U+096B", "U+096C", "U+096D", "U+096E", "U+096F">>],
      [since |-> 11, digits |->
         <<"U+09E6", "U+09E7", "U+09E8", "U+09E9", "U+09EA",
           "U+09EB", "U+09EC", "U+09ED", "U+09EE", "U+09EF">>],
      [since |-> 11, digits |->
         <<"U+0A66", "U+0A67", "U+0A68", "U+0A69", "U+0A6A",
           "U+0A6B", "U+0A6C", "U+0A6D", "U+0A6E", "U+0A6F">>],
      [since |-> 11, digits |->
         <<"U+0AE6", "U+0AE7", "U+0AE8", "U+0AE9", "U+0AEA",
           "U+0AEB", "U+0AEC", "U+0AED", "U+0AEE", "U+0AEF">>],
      [since |-> 11, digits |->
         <<"U+0B66", "U+0B67", "U+0B68", "U+0B69", "U+0B6A",
           "U+0B6B", "U+0B6C", "U+0B6D", "U+0B6E", "U+0B6F">>],
      [since |-> 41, digits |->
         <<"U+0BE6", "U+0BE7", "U+0BE8", "U+0BE9", "U+0BEA",
           "U+0BEB", "U+0BEC", "U+0BED", "U+0BEE", "U+0BEF">>],
      [since |-> 11, digits |->
         <<"U+0C66", "U+0C67", "U+0C68", "U+0C69", "U+0C6A",
           "U+0C6B", "U+0C6C", "U+0C6D", "U+0C6E", "U+0C6F">>],
      [since |-> 11, digits |->
         <<"U+0CE6", "U+0CE7", "U+0CE8", "U+0CE9", "U+0CEA",
           "U+0CEB", "U+0CEC", "U+0CED", "U+0CEE", "U+0CEF">>],
      [since |-> 11, digits |->
         <<"U+0D66", "U+0D67", "U+0D68", "U+0D69", "U+0D6A",
           "U+0D6B", "U+0D6C", "U+0D6D", "U+0D6E", "U+0D6F">>],
      [since |-> 70, digits |->
         <<"U+0DE6", "U+0DE7", "U+0DE8", "U+0DE9", "U+0DEA",
           "U+0DEB", "U+0DEC", "U+0DED", "U+0DEE", "U+0DEF">>],
      [since |-> 11, digits |->
         <<"U+0E50", "U+0E51", "U+0E52", "U+0E53", "U+0E54",
           "U+0E55", "U+0E56", "U+0E57", "U+0E58", "U+0E59">>],
      [since |-> 11, digits |->
         <<"U+0ED0", "U+0ED1", "U+0ED2", "U+0ED3", "U+0ED4",
           "U+0ED5", "U+0ED6", "U+0ED7", "U+0ED8", "U+0ED9">>],
      [since |-> 20, digits |->
         <<"U+0F20", "U+0F21", "U+0F22", "U+0F23", "U+0F24",
           "U+0F25", "U+0F26", "U+0F27", "U+0F28", "U+0F29">>],
      [since |-> 30, digits |->
         <<"U+1040", "U+1041", "U+1042", "U+1043", "U+1044",
           "U+1045", "U+1046", "U+1047", "U+1048", "U+1049">>],
      [since |-> 51, digits |->
         <<"U+1090", "U+1091", "U+1092", "U+1093", "U+1094",
           "U+1095", "U+1096", "U+1097", "U+1098", "U+1099">>],
      [since |-> 30, digits |->
         <<"U+17E0", "U+17E1", "U+17E2", "U+17E3", "U+17E4",
           "U+17E5", "U+17E6", "U+17E7", "U+17E8", "U+17E9">>],
      [since |-> 30, digits |->
         <<"U+1810", "U+1811", "U+1812", "U+1813", "U+1814",
           "U+1815", "U+1816", "U+1817", "U+1818", "U+1819">>],
      [since |-> 40, digits |->
         <<"U+1946", "U+1947", "U+1948", "U+1949", "U+194A",
           "U+194B", "U+194C", "U+194D", "U+194E", "U+194F">>],
      [since |-> 41, digits |->
         <<"U+19D0", "U+19D1", "U+19D2", "U+19D3", "U+19D4",
           "U+19D5", "U+19D6", "U+19D7", "U+19D8", "U+19D9">>],
      [since |-> 52, digits |->
         <<"U+1A80", "U+1A81", "U+1A82", "U+1A83", "U+1A84",
           "U+1A85", "U+1A86", "U+1A87", "U+1A88", "U+1A89">>],
      [since |-> 52, digits |->
         <<"U+1A90", "U+1A91", "U+1A92", "U+1A93", "U+1A94",
           "U+1A95", "U+1A96", "U+1A97", "U+1A98", "U+1A99">>],
      [since |-> 50, digits |->
         <<"U+1B50", "U+1B51", "U+1B52", "U+1B53", "U+1B54",
           "U+1B55", "U+1B56", "U+1B57", "U+1B58", "U+1B59">>],
      [since |-> 51, digits |->
         <<"U+1BB0", "U+1BB1", "U+1BB2", "U+1BB3", "U+1BB4",
           "U+1BB5", "U+1BB6", "U+1BB7", "U+1BB8", "U+1BB9">>],
      [since |-> 51, digits |->
         <<"U+1C40", "U+1C41", "U+1C42", "U+1C43", "U+1C44",
           "U+1C45", "U+1C46", "U+1C47", "U+1C48", "U+1C49">>],
      [since |-> 51, digits |->
         <<"U+1C50", "U+1C51", "U+1C52", "U+1C53", "U+1C54",
           "U+1C55", "U+1C56", "U+1C57", "U+1C58", "U+1C59">>],
      [since |-> 51, digits |->
         <<"U+A620", "U+A621", "U+A622", "U+A623", "U+A624",
           "U+A625", "U+A626", "U+A627", "U+A628", "U+A629">>],
      [since |-> 51, digits |->
         <<"U+A8D0", "U+A8D1", "U+A8D2", "U+A8D3", "U+A8D4",
           "U+A8D5", "U+A8D6", "U+A8D7", "U+A8D8", "U+A8D9">>],
      [since |-> 51, digits |->
         <<"U+A900", "U+A901", "U+A902", "U+A903", "U+A904",
           "U+A905", "U+A906", "U+A907", "U+A908", "U+A909">>],
      [since |-> 52, digits |->
         <<"U+A9D0", "U+A9D1", "U+A9D2", "U+A9D3", "U+A9D4",
           "U+A9D5", "U+A9D6", "U+A9D7", "U+A9D8", "U+A9D9">>],
      [since |-> 70, digits |->
         <<"U+A9F0", "U+A9F1", "U+A9F2", "U+A9F3", "U+A9F4",
           "U+A9F5", "U+A9F6", "U+A9F7", "U+A9F8", "U+A9F9">>],
      [since |-> 51, digits |->
         <<"U+AA50", "U+AA51", "U+AA52", "U+AA53", "U+AA54",
           "U+AA55", "U+AA56", "U+AA57", "U+AA58", "U+AA59">>],
      [since |-> 52, digits |->
         <<"U+ABF0", "U+ABF1", "U+ABF2", "U+ABF3", "U+ABF4",
           "U+ABF5", "U+ABF6", "U+ABF7", "U+ABF8", "U+ABF9">>],
      [since |-> 11, digits |->
         <<"U+FF10", "U+FF11", "U+FF12", "U+FF13", "U+FF14",
           "U+FF15", "U+FF16", "U+FF17", "U+FF18", "U+FF19">>],
      [since |-> 40, digits |->
         <<"U+104A0", "U+104A1", "U+104A2", "U+104A3", "U+104A4",
           "U+104A5", "U+104A6", "U+104A7", "U+104A8", "U+104A9">>],
      [since |-> 110, digits |->
         <<"U+10D30", "U+10D31", "U+10D32", "U+10D33", "U+10D34",
           "U+10D35", "U+10D36", "U+10D37", "U+10D38", "U+10D39">>],
      [since |-> 60, digits |->
         <<"U+11066", "U+11067", "U+11068", "U+11069", "U+1106A",
           "U+1106B", "U+1106C", "U+1106D", "U+1106E", "U+1106F">>],
      [since |-> 61, digits |->
         <<"U+110F0", "U+110F1", "U+110F2", "U+110F3", "U+110F4",
           "U+110F5", "U+110F6", "U+110F7", "U+110F8", "U+110F9">>],
      [since |-> 61, digits |->
         <<"U+11136", "U+11137", "U+11138", "U+11139", "U+1113A",
           "U+1113B", "U+1113C", "U+1113D", "U+1113E", "U+1113F">>],
      [since |-> 61, digits |->
         <<"U+111D0", "U+111D1", "U+111D2", "U+111D3", "U+111D4",
           "U+111D5", "U+111D6", "U+111D7", "U+111D8", "U+111D9">>],
      [since |-> 70, digits |->
         <<"U+112F0", "U+112F1", "U+112F2", "U+112F3", "U+112F4",
           "U+112F5", "U+112F6", "U+112F7", "U+112F8", "U+112F9">>],
      [since |-> 90, digits |->
         <<"U+11450", "U+11451", "U+11452", "U+11453", "U+11454",
           "U+11455", "U+11456", "U+11457", "U+11458", "U+11459">>],
      [since |-> 70, digits |->
         <<"U+114D0", "U+114D1", "U+114D2", "U+114D3", "U+114D4",
           "U+114D5", "U+114D6", "U+114D7", "U+114D8", "U+114D9">>],
      [since |-> 70, digits |->
         <<"U+11650", "U+11651", "U+11652", "U+11653", "U+11654",
           "U+11655", "U+11656", "U+11657", "U+11658", "U+11659">>],
      [since |-> 61, digits |->
         <<"U+116C0", "U+116C1", "U+116C2", "U+116C3", "U+116C4",
           "U+116C5", "U+116C6", "U+116C7", "U+116C8", "U+116C9">>],
      [since |-> 80, digits |->
         <<"U+11730", "U+11731", "U+11732", "U+11733", "U+11734",
           "U+11735", "U+11736", "U+11737", "U+11738", "U+11739">>],
      [since |-> 70, digits |->
         <<"U+118E0", "U+118E1", "U+118E2", "U+118E3", "U+118E4",
           "U+118E5", "U+118E6", "U+118E7", "U+118E8", "U+118E9">>],
      [since |-> 130, digits |->
         <<"U+11950", "U+11951", "U+11952", "U+11953", "U+11954",
           "U+11955", "U+11956", "U+11957", "U+11958", "U+11959">>],
      [since |-> 90, digits |->
         <<"U+11C50", "U+11C51", "U+11C52", "U+11C53", "U+11C54",
           "U+11C55", "U+11C56", "U+11C57", "U+11C58", "U+11C59">>],
      [since |-> 100, digits |->
         <<"U+11D50", "U+11D51", "U+11D52", "U+11D53", "U+11D54",
           "U+11D55", "U+11D56", "U+11D57", "U+11D58", "U+11D59">>],
      [since |-> 110, digits |->
         <<"U+11DA0", "U+11DA1", "U+11DA2", "U+11DA3", "U+11DA4",
           "U+11DA5", "U+11DA6", "U+11DA7", "U+11DA8", "U+11DA9">>],
      [since |-> 150, digits |->
         <<"U+11F50", "U+11F51", "U+11F52", "U+11F53", "U+11F54",
           "U+11F55", "U+11F56", "U+11F57", "U+11F58", "U+11F59">>],
      [since |-> 70, digits |->
         <<"U+16A60", "U+16A61", "U+16A62", "U+16A63", "U+16A64",
           "U+16A65", "U+16A66", "U+16A67", "U+16A68", "U+16A69">>],
      [since |-> 140, digits |->
         <<"U+16AC0", "U+16AC1", "U+16AC2", "U+16AC3", "U+16AC4",
           "U+16AC5", "U+16AC6", "U+16AC7", "U+16AC8", "U+16AC9">>],
      [since |-> 70, digits |->
         <<"U+16B50", "U+16B51", "U+16B52", "U+16B53", "U+16B54",
           "U+16B55", "U+16B56", "U+16B57", "U+16B58", "U+16B59">>],
      [since |-> 31, digits |->
         <<"U+1D7CE", "U+1D7CF", "U+1D7D0", "U+1D7D1", "U+1D7D2",
           "U+1D7D3", "U+1D7D4", "U+1D7D5", "U+1D7D6", "U+1D7D7">>],
      [since |-> 31, digits |->
         <<"U+1D7D8", "U+1D7D9", "U+1D7DA", "U+1D7DB", "U+1D7DC",
           "U+1D7DD", "U+1D7DE", "U+1D7DF", "U+1D7E0", "U+1D7E1">>],
      [since |-> 31, digits |->
         <<"U+1D7E2", "U+1D7E3", "U+1D7E4", "U+1D7E5", "U+1D7E6",
           "U+1D7E7", "U+1D7E8", "U+1D7E9", "U+1D7EA", "U+1D7EB">>],
      [since |-> 31, digits |->
         <<"U+1D7EC", "U+1D7ED", "U+1D7EE", "U+1D7EF", "U+1D7F0",
           "U+1D7F1", "U+1D7F2", "U+1D7F3", "U+1D7F4", "U+1D7F5">>],
      [since |-> 31, digits |->
         <<"U+1D7F6", "U+1D7F7", "U+1D7F8", "U+1D7F9", "U+1D7FA",
           "U+1D7FB", "U+1D7FC", "U+1D7FD", "U+1D7FE", "U+1D7FF">>],
      [since |-> 120, digits |->
         <<"U+1E140", "U+1E141", "U+1E142", "U+1E143", "U+1E144",
           "U+1E145", "U+1E146", "U+1E147", "U+1E148", "U+1E149">>],
      [since |-> 120, digits |->
         <<"U+1E2F0", "U+1E2F1", "U+1E2F2", "U+1E2F3", "U+1E2F4",
           "U+1E2F5", "U+1E2F6", "U+1E2F7", "U+1E2F8", "U+1E2F9">>],
      [since |-> 150, digits |->
         <<"U+1E4F0", "U+1E4F1", "U+1E4F2", "U+1E4F3", "U+1E4F4",
           "U+1E4F5", "U+1E4F6", "U+1E4F7", "U+1E4F8", "U+1E4F9">>],
      [since |-> 90, digits |->
         <<"U+1E950", "U+1E951", "U+1E952", "U+1E953", "U+1E954",
           "U+1E955", "U+1E956", "U+1E957", "U+1E958", "U+1E959">>],
      [since |-> 130, digits |->
         <<"U+1FBF0", "U+1FBF1", "U+1FBF2", "U+1FBF3", "U+1FBF4",
           "U+1FBF5", "U+1FBF6", "U+1FBF7", "U+1FBF8", "U+1FBF9">>],
      [since |-> 160, digits |->
         <<"U+10D40", "U+10D41", "U+10D42", "U+10D43", "U+10D44",
           "U+10D45", "U+10D46", "U+10D47", "U+10D48", "U+10D49">>],
      [since |-> 160, digits |->
         <<"U+116D0", "U+116D1", "U+116D2", "U+116D3", "U+116D4",
           "U+116D5", "U+116D6", "U+116D7", "U+116D8", "U+116D9">>],
      [since |-> 160, digits |->
         <<"U+116DA", "U+116DB", "U+116DC", "U+116DD", "U+116DE",
           "U+116DF", "U+116E0", "U+116E1", "U+116E2", "U+116E3">>],
      [since |-> 160, digits |->
         <<"U+11BF0", "U+11BF1", "U+11BF2", "U+11BF3", "U+11BF4",
           "U+11BF5", "U+11BF6", "U+11BF7", "U+11BF8", "U+11BF9">>],
      [since |-> 160, digits |->
         <<"U+16130", "U+16131", "U+16132", "U+16133", "U+16134",
           "U+16135", "U+16136", "U+16137", "U+16138", "U+16139">>],
      [since |-> 160, digits |->
         <<"U+16D70", "U+16D71", "U+16D72", "U+16D73", "U+16D74",
           "U+16D75", "U+16D76", "U+16D77", "U+16D78", "U+16D79">>],
      [since |-> 160, digits |->
         <<"U+1CCF0", "U+1CCF1", "U+1CCF2", "U+1CCF3", "U+1CCF4",
           "U+1CCF5", "U+1CCF6", "U+1CCF7", "U+1CCF8", "U+1CCF9">>],
      [since |-> 160, digits |->
         <<"U+1E5F1", "U+1E5F2", "U+1E5F3", "U+1E5F4", "U+1E5F5",
           "U+1E5F6", "U+1E5F7", "U+1E5F8", "U+1E5F9", "U+1E5FA">>] }

\* NEW TAI LUE THAM DIGIT ONE, a decimal digit until Unicode 6.0
ThamDigitOne == "U+19DA"

\* the characters every interpreter's int() ignores around a number
CommonWhitespace ==
    { " ", "\t", "\n", "\f", "\r",
      "U+000B", "U+0085", "U+00A0", "U+1680", "U+2000", "U+2001", "U+2002",
      "U+2003", "U+2004", "U+2005", "U+2006", "U+2007", "U+2008", "U+2009",
      "U+200A", "U+2028", "U+2029", "U+202F", "U+205F", "U+3000" }

\* the four separators of ASCII: white space to every interpreter, but
\* Python 3 hands the ASCII characters of a text to the number parser as
\* they are, and the parser knows only the six of C
AsciiSeparators == {"U+001C", "U+001D", "U+001E", "U+001F"}

\* the Mongolian vowel separator, a space until Unicode 6.3
MongolianVowelSeparator == "U+180E"

\* the characters int() ignores around a number
Whitespace(python) ==
    CommonWhitespace
      \cup (IF Major(python) = 2 THEN AsciiSeparators ELSE {})
      \cup (IF UnicodeVersion(python) < 63 THEN {MongolianVowelSeparator} ELSE {})

\* every character of the blocks
BlockDigits == UNION { {b.digits[v] : v \in 1..10} : b \in DigitBlocks }

\* a character of the blocks: the value it stands for and the Unicode
\* version from which it does
BlockDigit ==
    [c \in BlockDigits |->
        LET b == CHOOSE b \in DigitBlocks : \E v \in 1..10 : b.digits[v] = c
        IN  [since |-> b.since, value |-> (CHOOSE v \in 1..10 : b.digits[v] = c) - 1]]

S_ion_ == <<"i", "o", "n", "_">>
S_ioncell_ == <<"i", "o", "n", "c", "e", "l", "l", "_">>
S_autoparal == <<"a", "u", "t", "o", "p", "a", "r", "a", "l">>
S_scf_ == <<"s", "c", "f", "_">>
S_gen_ph == <<"g", "e", "n", "_", "p", "h">>

\* a number of one digit more than the smallest digit limit
S_ones == [i \in 1..(StrDigitsCheckThreshold + 1) |-> "1"]

\* s[:n]
Head_(s, n) == SubSeq(s, 1, IF n < Len(s) THEN n ELSE Len(s))

\* s[-n:]
Tail_(s, n) == SubSeq(s, IF n < Len(s) THEN Len(s) - n + 1 ELSE 1, Len(s))

\* str(n) of an integer
RECURSIVE str(_)
str(n) ==
    IF n < 0 THEN <<"-">> \o str(-n)
    ELSE IF n < 10 THEN <<Digits[n + 1]>>
    ELSE str(n \div 10) \o <<Digits[(n % 10) + 1]>>

\* what follows the last underscore of s (all of s if it has none)
LastField(s) ==
    LET underscores == {i \in 1..Len(s) : s[i] = "_"}
        last == IF underscores = {} THEN 0
                ELSE CHOOSE i \in underscores : \A j \in underscores : j <= i
    IN  SubSeq(s, last + 1, Len(s))

\* the longest index a container of the model carries, and its last field
\* worked out once
LongIndexes == { S_ioncell_ \o S_ones }

LastFieldOf == [s \in LongIndexes |-> LastField(s)]

\* s.split('_')[-1]
SplitLast(s) == IF s \in LongIndexes THEN LastFieldOf[s] ELSE LastField(s)

\* the stripping int() does: the whitespace at both ends dropped
Strip(s, python) ==
    LET kept == {i \in 1..Len(s) : s[i] \notin Whitespace(python)}
    IN  IF kept = {} THEN <<>>
        ELSE SubSeq(s, CHOOSE i \in kept : \A j \in kept : i <= j,
                       CHOOSE i \in kept : \A j \in kept : j <= i)

\* the value of each ASCII digit
AsciiDigit == [c \in {Digits[v] : v \in 1..10} |-> (CHOOSE v \in 1..10 : Digits[v] = c) - 1]

\* the value of a digit d of the blocks in the character database of the
\* version `unicode`: none before the version that added it
Since(d, unicode) == IF d.since <= unicode THEN {d.value} ELSE {}

\* the value of a character that was a digit before the version `until`
Until(until, value, unicode) == IF unicode < until THEN {value} ELSE {}

\* the values the character c stands for as a decimal digit: one value for
\* a digit of the interpreter's character database, none for anything else
Decimal(c, python) ==
    IF c \in DOMAIN AsciiDigit THEN {AsciiDigit[c]}
    ELSE IF IsSurrogatePair(c, python) THEN {}
    ELSE IF c \in BlockDigits THEN Since(BlockDigit[c], UnicodeVersion(python))
    ELSE IF c = ThamDigitOne THEN Until(60, 1, UnicodeVersion(python))
    ELSE {}

IsDigit(c, python) == Decimal(c, python) # {}

DigitValue(c, python) == CHOOSE v \in Decimal(c, python) : TRUE

\* A Python integer has no largest value: it is kept as its sign and its
\* decimal digits, the most significant first, none for zero

RECURSIVE Mag(_)
Mag(n) == IF n = 0 THEN <<>> ELSE Mag(n \div 10) \o <<n % 10>>

\* the Python integer n
PyInt(n) == [neg |-> n < 0, mag |-> Mag(IF n < 0 THEN 0 - n ELSE n)]

MagLess(a, b) ==
    \/ Len(a) < Len(b)
    \/ /\ Len(a) = Len(b)
       /\ \E i \in 1..Len(a) : a[i] < b[i] /\ \A j \in 1..(i - 1) : a[j] = b[j]

\* x < y of two Python integers
Less(x, y) ==
    IF x.neg # y.neg THEN x.neg
    ELSE IF x.neg THEN MagLess(y.mag, x.mag)
    ELSE MagLess(x.mag, y.mag)

\* the value of a run of digits; the underscores that group them and the
\* zeros in front count for nothing
DigitValues(digits, python) == [i \in 1..Len(digits) |-> DigitValue(digits[i], python)]

LeadingZerosDropped(values) ==
    LET nonzero == {i \in 1..Len(values) : values[i] # 0}
    IN  IF nonzero = {} THEN <<>>
        ELSE SubSeq(values, CHOOSE i \in nonzero : \A j \in nonzero : i <= j, Len(values))

DigitsValue(s, python) ==
    LeadingZerosDropped(DigitValues(SelectSeq(s, LAMBDA c : c # "_"), python))

\* the digits of a number as the interpreter accepts them: one or more
\* digits, single underscores between digits where the interpreter groups, and no
\* more digits than the limit where there is one
IsNumber(body, python, max_str_digits) ==
    /\ body # <<>>
    /\ \A i \in 1..Len(body) :
          \/ IsDigit(body[i], python)
          \/ /\ HasUnderscores(python) /\ body[i] = "_"
             /\ 1 < i /\ i < Len(body) /\ body[i - 1] # "_"
    /\ (HasMaxStrDigits(python) /\ max_str_digits # NoLimit) =>
          Len(SelectSeq(body, LAMBDA c : c # "_")) <= max_str_digits

\* the text t starts with a sign
Signed(t) == t # <<>> /\ t[1] \in {"-", "+"}

\* what follows the sign of t, if it has one: Python 2 ignores whitespace
\* between the sign and the digits
SignDropped(t, python) ==
    IF ~Signed(t) THEN t
    ELSE IF Major(python) = 2 THEN Strip(Tail(t), python)
    ELSE Tail(t)

\* the integer of the digits `mag`, negative after a minus sign; zero has
\* no sign
SignedValue(minus, mag) == [ok |-> TRUE, val |-> [neg |-> minus /\ mag # <<>>, mag |-> mag]]

\* the number the digits `body` stand for, or a ValueError
ParseBody(minus, body, python, max_str_digits) ==
    IF IsNumber(body, python, max_str_digits) THEN SignedValue(minus, DigitsValue(body, python))
    ELSE [ok |-> FALSE, val |-> PyInt(0)]

\* the number the text t, stripped of the whitespace around it, stands for
ParseStripped(t, python, max_str_digits) ==
    ParseBody(Signed(t) /\ t[1] = "-", SignDropped(t, python), python, max_str_digits)

\* the number the text s stands for under the interpreter `python`: surrounding whitespace ignored, an
\* optional sign, then the digits; Python 2 also ignores whitespace between
\* the sign and the digits; anything else is a ValueError
ParseInt(s, python, max_str_digits) ==
    ParseStripped(Strip(s, python), python, max_str_digits)

\* index texts that are numbers to some interpreters only: a tab and a
\* digit of Unicode 13.0, a sign parted from its digit
S_tab_segmented_3 == <<"\t", "U+1FBF3">>
S_minus_space_0 == <<"-", " ", "0">>

\* the texts the indexes of the containers end in
IndexTexts ==
    { str(1), str(2), str(0 - 1), S_autoparal, <<"p", "h">>,
      S_tab_segmented_3, S_minus_space_0, S_ones }

\* what each interpreter makes of each of them, worked out once
IndexValue ==
    [python \in Interpreters |->
        [max_str_digits \in IntMaxStrDigits(python) |->
            [s \in IndexTexts |-> ParseInt(s, python, max_str_digits)]]]

\* int(s) under the interpreter `python`: surrounding whitespace ignored, an
\* optional sign, then the digits; anything else is a ValueError
int(s, python, max_str_digits) ==
    IF s \in IndexTexts /\ max_str_digits \in IntMaxStrDigits(python)
    THEN IndexValue[python][max_str_digits][s]
    ELSE ParseInt(s, python, max_str_digits)

-----------------------------------------------------------------------------
(* Collaborators: task wrappers, containers, graphs *)

NoDeps == [kind |-> "none", map |-> {}, list |-> <<>>]
\* deps={...}: a mapping, as a set of <<task_type, extension>> entries
DictDeps(entries) == [kind |-> "dict", map |-> entries, list |-> <<>>]
\* deps=[...]: a list of extensions
ListDeps(exts) == [kind |-> "list", map |-> {}, list |-> exts]

\* the task_type tag of a task wrapper class
task_type(cls) ==
    CASE cls = "ScfFWTask" -> "scf"
      [] cls = "NscfFWTask" -> "nscf"
      [] cls = "RelaxFWTask" -> "relax"
      [] cls = "RelaxDilatmxFWTask" -> "relax_dilatmx"
      [] cls = "HybridFWTask" -> "hybrid"
      [] cls = "DdkTask" -> "ddk"
      [] cls = "StrainPertTask" -> "strain_pert"
      [] OTHER -> cls

\* a task wrapper: its class, its task_type, the autoparal flag and deps
Task(cls, is_autoparal, deps) ==
    [cls |-> cls, task_type |-> task_type(cls), is_autoparal |-> is_autoparal, deps |-> deps]

\* get_short_single_core_spec(): the queue profile of a short one-core job
get_short_single_core_spec == "short_single_core"

\* name=None, which a container and a graph take like the empty name
NoName == ""

\* the name of a container made without one
UnnamedFW == "Unnamed FW"

\* wf.name of a graph made without a name, as every constructor makes it
UnnamedWF == "unnamed WF"

\* Firework(tasks, spec=spec, name=name): the container keeps a copy of the
\* mapping, spec.copy(), and takes the next id of the decreasing id counter
Firework(h, tasks, spec, name, n) ==
    LET a == Alloc(h, IF spec = NoneRef THEN EmptyDict ELSE h[spec])
    IN  [heap |-> a.heap,
         fw |-> [fw_id |-> 0 - n, name |-> IF name = NoName THEN UnnamedFW ELSE name,
                 spec |-> a.ref, tasks |-> tasks,
                 launches |-> <<>>, archived_launches |-> <<>>]]

\* Workflow(fireworks, links_dict, metadata): every container is a key of
\* links; links_dict is given as a set of <<parent, child>> pairs
Workflow(fireworks, links_dict, md) ==
    LET ids == {fireworks[i].fw_id : i \in 1..Len(fireworks)}
    IN  [links |-> [p \in ids |-> {c \in ids : <<p, c>> \in links_dict}],
         metadata |-> md]

\* what the builders read of a structure: len(structure), the symbols of
\* structure.composition.elements and composition.reduced_formula; `given`
\* is FALSE for None
NoStructure == [given |-> FALSE, nsites |-> 0, elements |-> <<>>, reduced_formula |-> ""]

\* `if structure:` and `... if structure else ""`: None is false, and so
\* is a structure of length 0
Truthy(structure) == structure.given /\ structure.nsites # 0

\* a structure of two Si sites
Silicon == [given |-> TRUE, nsites |-> 2, elements |-> <<"Si">>, reduced_formula |-> "Si"]

\* an input object handed to a constructor: its class and its attributes

\* an AbinitInput, which has a structure
AbinitInput(structure) ==
    [cls |-> "AbinitInput", attrs |-> Put(EmptyDict, "structure", structure)]

\* an input factory: the positional and the keyword arguments it was made
\* with, and no structure attribute
InputFactory(args, kwargs) ==
    [cls |-> "InputFactory", attrs |-> Put(Put(EmptyDict, "args", args), "kwargs", kwargs)]

\* an object with none of these attributes
PlainObject == [cls |-> "object", attrs |-> EmptyDict]

leaf_fw_ids(lk) == {p \in DOMAIN lk : lk[p] = {}}

\* append_fw_to_wf(new_fw, wf): the new container becomes the successor of
\* every container that had none
append_fw_to_wf(lk, new_id) ==
    [p \in (DOMAIN lk) \cup {new_id} |->
        IF p = new_id THEN {}
        ELSE IF lk[p] = {} THEN {new_id}
        ELSE lk[p]]

-----------------------------------------------------------------------------
(* AbstractFWWorkflow helpers and the constructors *)

\* `if spec is None: spec = {}`
OrEmpty(h, spec) ==
    IF spec = NoneRef THEN Alloc(h, EmptyDict) ELSE [heap |-> h, ref |-> spec]

\* the copy left out: the same object under another name
dict_alias(h, spec) == [heap |-> h, ref |-> spec]

\* `spec = dict(spec)`: a new mapping with the same entries
dict(h, spec) == Alloc(h, h[spec])

\* set_short_single_core_to_spec with the two keys set only when the
\* caller's mapping lacks them (setdefault in place of assignment)
set_short_single_core_to_spec_setdefault(h, spec) ==
    LET s0 == OrEmpty(h, spec)
        s1 == dict(s0.heap, s0.ref)
        d == s1.heap[s1.ref]
        h2 == IF "mpi_ncpus" \in DOMAIN d THEN s1.heap ELSE Store(s1.heap, s1.ref, "mpi_ncpus", 1)
        h3 == IF "_queueadapter" \in DOMAIN d THEN h2
              ELSE Store(h2, s1.ref, "_queueadapter", get_short_single_core_spec)
    IN  [heap |-> h3, ref |-> s1.ref]

\* AbstractFWWorkflow.set_short_single_core_to_spec(spec=None)
set_short_single_core_to_spec(h, spec) ==
    LET s0 == OrEmpty(h, spec)
        s1 == dict(s0.heap, s0.ref)
        qadapter_spec == get_short_single_core_spec
        h2 == Store(s1.heap, s1.ref, "mpi_ncpus", 1)
        h3 == Store(h2, s1.ref, "_queueadapter", qadapter_spec)
    IN  [heap |-> h3, ref |-> s1.ref]

\* `if initialization_info is None: initialization_info = {}`
InfoOrEmpty(c) == IF c.info_given THEN c.info ELSE {}

\* the lines every constructor that takes initialization_info starts with:
\*   spec = dict(spec); spec['initialization_info'] = initialization_info
\*   if autoparal: spec = self.set_short_single_core_to_spec(spec)
BaseSpec(h, spec, c) ==
    LET s0 == OrEmpty(h, spec)
        s1 == dict(s0.heap, s0.ref)
        h2 == Store(s1.heap, s1.ref, "initialization_info", InfoOrEmpty(c))
    IN  IF c.autoparal THEN set_short_single_core_to_spec(h2, s1.ref)
        ELSE [heap |-> h2, ref |-> s1.ref]

\* the attribute of the input, or the exception the lookup raises
GetAttr(input, attribute) ==
    IF attribute \in DOMAIN input.attrs
    THEN [error |-> "none", value |-> input.attrs[attribute]]
    ELSE [error |-> "AttributeError", value |-> NoStructure]

\* the try block of get_reduced_formula: the structure of the input, or
\* the exception raised on the way to it
InputStructure(input) ==
    IF input.cls = "AbinitInput" THEN GetAttr(input, "structure")
    ELSE IF GetAttr(input, "kwargs").error # "none" THEN GetAttr(input, "kwargs")
    ELSE IF "structure" \in DOMAIN input.attrs["kwargs"]
    THEN [error |-> "none", value |-> input.attrs["kwargs"]["structure"]]
    ELSE IF GetAttr(input, "args").error # "none" THEN GetAttr(input, "args")
    ELSE IF input.attrs["args"] = <<>> THEN [error |-> "IndexError", value |-> NoStructure]
    ELSE [error |-> "none", value |-> input.attrs["args"][1]]

\* AbstractFWWorkflow.get_reduced_formula(input) under the interpreter
\* `python`.  The except branch formats e.message into a warning: an
\* exception has that attribute under Python 2, and the structure stays
\* None; under Python 3 it has not, and the AttributeError of the lookup
\* leaves the method
get_reduced_formula(input, python) ==
    LET found == InputStructure(input)
        structure == IF found.error = "none" THEN found.value ELSE NoStructure
    IN  IF found.error # "none" /\ Major(python) = 3
        THEN [error |-> "AttributeError", rf |-> ""]
        ELSE [error |-> "none",
              rf |-> IF Truthy(structure) THEN structure.reduced_formula ELSE ""]

\* what a constructor leaves behind: the object store, self.wf's containers,
\* links and metadata
Built(h, fireworks, wf) ==
    [heap |-> h, fws |-> fireworks, links |-> wf.links, metadata |-> wf.metadata,
     status |-> "ok"]

\* a call that raises returns no object: nothing is built
Raised(h, error) ==
    [heap |-> h, fws |-> <<>>, links |-> EmptyDict, metadata |-> EmptyDict,
     status |-> error]

InputFWWorkflow_init(h, spec, c) ==
    LET abitask == Task(c.task_type, c.autoparal, NoDeps)
        s == BaseSpec(h, spec, c)
        f == Firework(s.heap, <<abitask>>, s.ref, NoName, 1)
    IN  Built(f.heap, <<f.fw>>, Workflow(<<f.fw>>, {}, EmptyDict))

ScfFWWorkflow_init(h, spec, c) ==
    LET abitask == Task("ScfFWTask", c.autoparal, NoDeps)
        s == BaseSpec(h, spec, c)
        scf_fw == Firework(s.heap, <<abitask>>, s.ref, NoName, 1)
    IN  Built(scf_fw.heap, <<scf_fw.fw>>, Workflow(<<scf_fw.fw>>, {}, EmptyDict))

RelaxFWWorkflow_class == "RelaxFWWorkflow"
RelaxFWWorkflow_module == "abiflows.fireworks.workflows.abinit_workflows"

ClassMetadata(cls, mod) ==
    [k \in {"workflow_class", "workflow_module"} |-> IF k = "workflow_class" THEN cls ELSE mod]

\* the index left at 1 when autoparal is asked for
RelaxFWWorkflow_init_index_kept(h, spec, c) ==
    LET s == BaseSpec(h, spec, c)
        start_task_index == str(1)
        h1 == Store(s.heap, s.ref, "wf_task_index", S_ion_ \o start_task_index)
        ion_task == Task("RelaxFWTask", c.autoparal, NoDeps)
        ion_fw == Firework(h1, <<ion_task>>, s.ref, NoName, 1)
        h2 == Store(ion_fw.heap, s.ref, "wf_task_index", S_ioncell_ \o start_task_index)
        ioncell_task == IF c.target_dilatmx
                        THEN Task("RelaxDilatmxFWTask", c.autoparal, NoDeps)
                        ELSE Task("RelaxFWTask", c.autoparal, NoDeps)
        ioncell_fw == Firework(h2, <<ioncell_task>>, s.ref, NoName, 2)
        fireworks == <<ion_fw.fw, ioncell_fw.fw>>
    IN  Built(ioncell_fw.heap, fireworks,
              Workflow(fireworks, {<<ion_fw.fw.fw_id, ioncell_fw.fw.fw_id>>},
                       ClassMetadata(RelaxFWWorkflow_class, RelaxFWWorkflow_module)))

RelaxFWWorkflow_init(h, spec, c) ==
    LET s == BaseSpec(h, spec, c)
        start_task_index == IF c.autoparal THEN S_autoparal ELSE str(1)
        h1 == Store(s.heap, s.ref, "wf_task_index", S_ion_ \o start_task_index)
        ion_task == Task("RelaxFWTask", c.autoparal, NoDeps)
        ion_fw == Firework(h1, <<ion_task>>, s.ref, NoName, 1)
        h2 == Store(ion_fw.heap, s.ref, "wf_task_index", S_ioncell_ \o start_task_index)
        ioncell_task == IF c.target_dilatmx
                        THEN Task("RelaxDilatmxFWTask", c.autoparal, NoDeps)
                        ELSE Task("RelaxFWTask", c.autoparal, NoDeps)
        ioncell_fw == Firework(h2, <<ioncell_task>>, s.ref, NoName, 2)
        fireworks == <<ion_fw.fw, ioncell_fw.fw>>
    IN  Built(ioncell_fw.heap, fireworks,
              Workflow(fireworks, {<<ion_fw.fw.fw_id, ioncell_fw.fw.fw_id>>},
                       ClassMetadata(RelaxFWWorkflow_class, RelaxFWWorkflow_module)))

\* the definition of NscfFWWorkflow in force: the second one of the file,
\* which replaces the first and takes no initialization_info
NscfFWWorkflow_init(h, spec, c) ==
    IF c.info_given THEN Raised(h, "TypeError")
    ELSE
    LET s0 == OrEmpty(h, spec)
        s1 == dict(s0.heap, s0.ref)
        s == IF c.autoparal THEN set_short_single_core_to_spec(s1.heap, s1.ref) ELSE s1
        ion_task == Task("ScfFWTask", c.autoparal, NoDeps)
        ion_fw == Firework(s.heap, <<ion_task>>, s.ref, NoName, 1)
        ioncell_task == Task("NscfFWTask", c.autoparal, DictDeps({<<ion_task.task_type, "DEN">>}))
        ioncell_fw == Firework(ion_fw.heap, <<ioncell_task>>, s.ref, NoName, 2)
        fireworks == <<ion_fw.fw, ioncell_fw.fw>>
    IN  Built(ioncell_fw.heap, fireworks,
              Workflow(fireworks, {<<ion_fw.fw.fw_id, ioncell_fw.fw.fw_id>>}, EmptyDict))

HybridOneShotFWWorkflow_init(h, spec, c, python) ==
    LET r == get_reduced_formula(c.scf_inp, python)
        rf == r.rf
        scf_task == Task("ScfFWTask", c.autoparal, NoDeps)
        s == BaseSpec(h, spec, c)
        scf_fw == Firework(s.heap, <<scf_task>>, s.ref, rf \o "_" \o scf_task.task_type, 1)
        hybrid_task == Task("HybridFWTask", c.autoparal, ListDeps(<<"WFK">>))
        hybrid_fw == Firework(scf_fw.heap, <<hybrid_task>>, s.ref,
                              rf \o "_" \o hybrid_task.task_type, 2)
        fireworks == <<scf_fw.fw, hybrid_fw.fw>>
    IN  IF r.error # "none" THEN Raised(h, r.error)
        ELSE Built(hybrid_fw.heap, fireworks,
                   Workflow(fireworks, {<<scf_fw.fw.fw_id, hybrid_fw.fw.fw_id>>}, EmptyDict))

PhononFWWorkflow_class == "PhononFWWorkflow"
PhononFWWorkflow_module == "abipy.fworks.fw_workflows"

PhononFWWorkflow_init(h, spec, c, python) ==
    LET r == get_reduced_formula(c.scf_inp, python)
        rf == r.rf
        scf_task == Task("ScfFWTask", c.autoparal, NoDeps)
        s == BaseSpec(h, spec, c)
        start_task_index == IF c.autoparal THEN S_autoparal ELSE str(1)
        h1 == Store(s.heap, s.ref, "wf_task_index", S_scf_ \o start_task_index)
        scf_fw == Firework(h1, <<scf_task>>, s.ref, rf \o "_" \o scf_task.task_type, 1)
        ph_generation_task ==
            [cls |-> "GeneratePhononFlowFWTask", previous_task_type |-> scf_task.task_type,
             with_autoparal |-> c.autoparal]
        h2 == Store(scf_fw.heap, s.ref, "wf_task_index", S_gen_ph)
        ph_generation_fw == Firework(h2, <<ph_generation_task>>, s.ref, rf \o "_gen_ph", 2)
        fireworks == <<scf_fw.fw, ph_generation_fw.fw>>
    IN  IF r.error # "none" THEN Raised(h, r.error)
        ELSE Built(ph_generation_fw.heap, fireworks,
                   Workflow(fireworks, {<<scf_fw.fw.fw_id, ph_generation_fw.fw.fw_id>>},
                            ClassMetadata(PhononFWWorkflow_class, PhononFWWorkflow_module)))

-----------------------------------------------------------------------------
(* Appending follow-up containers *)

\* Firework(tasks, spec=spec, name=name) followed by
\* append_fw_to_wf(fw, self.wf)
AppendContainer(h, fireworks, lk, tasks, spec, name) ==
    LET f == Firework(h, tasks, spec, name, Len(fireworks) + 1)
    IN  [heap |-> f.heap, fws |-> Append(fireworks, f.fw),
         links |-> append_fw_to_wf(lk, f.fw.fw_id)]

FinalCleanUpTask(out_exts) == [cls |-> "FinalCleanUpTask", out_exts |-> out_exts]

DatabaseInsertTask(insertion_data, criteria) ==
    [cls |-> "DatabaseInsertTask", insertion_data |-> insertion_data, criteria |-> criteria]

AnaDdbTask == [cls |-> "AnaDdbTask", task_type |-> "anaddb"]

MergeDdbTask == [cls |-> "MergeDdbTask", task_type |-> "mrgddb"]

\* add_final_cleanup that adds the cleanup container to the graph without
\* wiring it after the terminal containers
add_final_cleanup_unwired(h, fireworks, lk, out_exts) ==
    LET s == set_short_single_core_to_spec(h, NoneRef)
        h1 == Store(s.heap, s.ref, "_priority", 100)
        f == Firework(h1, <<FinalCleanUpTask(out_exts)>>, s.ref,
                      Head_(UnnamedWF \o "_cleanup", 15), Len(fireworks) + 1)
    IN  [heap |-> f.heap, fws |-> Append(fireworks, f.fw),
         links |-> [p \in (DOMAIN lk) \cup {f.fw.fw_id} |->
                       IF p = f.fw.fw_id THEN {} ELSE lk[p]]]

\* AbstractFWWorkflow.add_final_cleanup(out_exts)
add_final_cleanup(h, fireworks, lk, out_exts) ==
    LET s == set_short_single_core_to_spec(h, NoneRef)
        h1 == Store(s.heap, s.ref, "_priority", 100)
    IN  AppendContainer(h1, fireworks, lk, <<FinalCleanUpTask(out_exts)>>, s.ref,
                        Head_(UnnamedWF \o "_cleanup", 15))

\* AbstractFWWorkflow.add_db_insert_and_cleanup(mongo_database, out_exts,
\* insertion_data, criteria)
add_db_insert_and_cleanup(h, fireworks, lk, out_exts, insertion_data) ==
    LET s == set_short_single_core_to_spec(h, NoneRef)
        h1 == Store(s.heap, s.ref, "mongo_database", "mongo_database.as_dict()")
    IN  AppendContainer(h1, fireworks, lk,
                        <<DatabaseInsertTask(insertion_data, "None"), FinalCleanUpTask(out_exts)>>,
                        s.ref, Head_(UnnamedWF \o "_insclnup", 15))

\* add_anaddb_task(structure), of AbstractFWWorkflow and, with the same
\* body, of PiezoElasticFWWorkflow
add_anaddb_task(h, fireworks, lk) ==
    LET s == set_short_single_core_to_spec(h, NoneRef)
    IN  AppendContainer(s.heap, fireworks, lk, <<AnaDdbTask>>, s.ref, "anaddb")

\* PiezoElasticFWWorkflow.add_mrgddb_task(structure)
add_mrgddb_task(h, fireworks, lk) ==
    LET s == set_short_single_core_to_spec(h, NoneRef)
        h1 == Store(s.heap, s.ref, "ddb_files_task_types", <<"scf", "strain_pert">>)
    IN  AppendContainer(h1, fireworks, lk, <<MergeDdbTask>>, s.ref, "mrgddb")

\* AbstractFWWorkflow.append_fw(fw, short_single_spec); fw is a container
\* the caller made, fw_spec the address of its spec
append_fw(h, fireworks, lk, fw, short_single_spec) ==
    LET s == set_short_single_core_to_spec(h, NoneRef)
        h1 == IF short_single_spec
              THEN [s.heap EXCEPT ![fw.spec] = Update(@, s.heap[s.ref])]
              ELSE h
    IN  [heap |-> h1, fws |-> Append(fireworks, fw), links |-> append_fw_to_wf(lk, fw.fw_id)]

PiezoElasticFWWorkflow_class == "PiezoElasticFWWorkflow"
PiezoElasticFWWorkflow_module == "abiflows.fireworks.workflows.abinit_workflows"

\* the links with the second edge the wrong way round
PiezoElasticLinks_reversed(scf_fw, ddk_fw, rf_fw) ==
    {<<scf_fw.fw_id, ddk_fw.fw_id>>, <<rf_fw.fw_id, ddk_fw.fw_id>>}

\* links_dict={self.scf_fw: self.ddk_fw, self.ddk_fw: self.rf_fw}
PiezoElasticLinks(scf_fw, ddk_fw, rf_fw) ==
    {<<scf_fw.fw_id, ddk_fw.fw_id>>, <<ddk_fw.fw_id, rf_fw.fw_id>>}

\* the last line, `self.add_anaddb_task(scf_inp.structure)`, reads the
\* structure attribute of the input whatever get_reduced_formula found
PiezoElasticFWWorkflow_init(h, spec, c, python) ==
    LET r == get_reduced_formula(c.scf_inp, python)
        rf == r.rf
        scf_task == Task("ScfFWTask", c.autoparal, NoDeps)
        s == BaseSpec(h, spec, c)
        scf_fw == Firework(s.heap, <<scf_task>>, s.ref, rf \o "_" \o scf_task.task_type, 1)
        ddk_task == Task("DdkTask", c.autoparal, DictDeps({<<scf_task.task_type, "WFK">>}))
        ddk_fw_name == Head_(rf \o ddk_task.task_type, 8)
        ddk_fw == Firework(scf_fw.heap, <<ddk_task>>, s.ref, ddk_fw_name, 2)
        rf_task == Task("StrainPertTask", c.autoparal,
                        DictDeps({<<scf_task.task_type, "WFK">>, <<ddk_task.task_type, "DDK">>}))
        rf_fw_name == Head_(rf \o rf_task.task_type, 8)
        rf_fw == Firework(ddk_fw.heap, <<rf_task>>, s.ref, rf_fw_name, 3)
        fireworks == <<scf_fw.fw, ddk_fw.fw, rf_fw.fw>>
        wf == Workflow(fireworks, PiezoElasticLinks(scf_fw.fw, ddk_fw.fw, rf_fw.fw),
                       ClassMetadata(PiezoElasticFWWorkflow_class, PiezoElasticFWWorkflow_module))
        structure == GetAttr(c.scf_inp, "structure")
        w == add_anaddb_task(rf_fw.heap, fireworks, wf.links)
    IN  IF r.error # "none" THEN Raised(h, r.error)
        ELSE IF structure.error # "none" THEN Raised(h, structure.error)
        ELSE [heap |-> w.heap, fws |-> w.fws, links |-> w.links, metadata |-> wf.metadata,
              status |-> "ok"]

-----------------------------------------------------------------------------
(* The caller's inputs *)

\* spec mappings a caller passes to a constructor
CallerSpecs ==
    { EmptyDict,
      Put(Put(Put(EmptyDict, "mpi_ncpus", 4), "_queueadapter", "caller_queue"),
          "initialization_info", {<<"stale", "yes">>}) }

\* initialization_info mappings, as sets of <<key, value>> entries
CallerInfos == { {<<"user", "me">>} }

NoCall ==
    [spec_given |-> FALSE, spec |-> EmptyDict, autoparal |-> FALSE,
     info_given |-> FALSE, info |-> {}, task_type |-> "AbiFireTask",
     target_dilatmx |-> FALSE, scf_inp |-> AbinitInput(Silicon)]

\* what a caller hands over as scf_inp: an AbinitInput, a factory given its
\* structure by keyword, one given it by position, one given none, and an
\* object that is neither
ScfInputs ==
    { AbinitInput(Silicon),
      InputFactory(<<>>, Put(EmptyDict, "structure", Silicon)),
      InputFactory(<<Silicon>>, EmptyDict),
      InputFactory(<<>>, EmptyDict),
      PlainObject }

\* constructor calls: spec and initialization_info given or left to their
\* default None, autoparal either way
Calls ==
    { [NoCall EXCEPT !.spec_given = sg, !.spec = IF sg THEN sp ELSE EmptyDict,
                     !.autoparal = ap,
                     !.info_given = ig, !.info = IF ig THEN inf ELSE {}] :
        sg \in BOOLEAN, sp \in CallerSpecs, ap \in BOOLEAN,
        ig \in BOOLEAN, inf \in CallerInfos }

\* the caller's objects before the call
CallerHeap(c) == IF c.spec_given THEN <<c.spec>> ELSE <<>>
CallerRef(c) == IF c.spec_given THEN 1 ELSE NoneRef

\* spec mappings of containers a caller hands to append_fw
FwSpecs ==
    { EmptyDict,
      Put(Put(EmptyDict, "mpi_ncpus", 4), "_queueadapter", "caller_queue") }

OutExts == { <<"WFK">>, <<"WFK", "DEN">> }

-----------------------------------------------------------------------------
(* Metadata of the graph *)

\* additional_metadata=None
NoAdditionalMetadata == [given |-> FALSE, map |-> EmptyDict]

\* the update made the other way round: the fields of the structure and
\* wf_type replace the caller's
add_metadata_structure_wins(md, class_name, structure, additional_metadata) ==
    LET additional == IF additional_metadata.given THEN additional_metadata.map ELSE EmptyDict
        m0 == Put(EmptyDict, "wf_type", class_name)
        m1 == IF Truthy(structure)
              THEN Put(Put(Put(m0, "nsites", structure.nsites),
                           "elements", structure.elements),
                       "reduced_formula", structure.reduced_formula)
              ELSE m0
    IN  Update(md, Update(additional, m1))

\* self.add_metadata(structure, additional_metadata) on a builder of class
\* class_name whose graph has metadata md: the metadata of the graph after
add_metadata(md, class_name, structure, additional_metadata) ==
    LET additional == IF additional_metadata.given THEN additional_metadata.map ELSE EmptyDict
        m0 == Put(EmptyDict, "wf_type", class_name)
        m1 == IF Truthy(structure)
              THEN Put(Put(Put(m0, "nsites", structure.nsites),
                           "elements", structure.elements),
                       "reduced_formula", structure.reduced_formula)
              ELSE m0
        m2 == Update(m1, additional)
    IN  Update(md, m2)

\* no add_metadata call made yet
NoAddMetadata ==
    [n |-> 0, structure |-> NoStructure, additional_metadata |-> NoAdditionalMetadata,
     before |-> EmptyDict]

-----------------------------------------------------------------------------
(* Submission *)

\* the graph has been handed to no launchpad
NotSubmitted == "none"

\* the lpad argument of add_to_db: None or a launchpad of the caller's
Lpads == {"None", "lpad"}

\* self.add_to_db(lpad): the launchpad whose add_wf is handed self.wf, the
\* one LaunchPad.auto_load() gives when the caller names none.  The graph
\* handed over is self.wf itself; what add_wf returns and the ids the
\* engine generates are the engine's, and the containers keep the handles
\* the constructor gave them
add_to_db(lpad) == IF lpad = "None" THEN "LaunchPad.auto_load()" ELSE lpad

-----------------------------------------------------------------------------
(* State machine *)

Init ==
    /\ heap = <<>>
    /\ call = [builder |-> "none", status |-> "none", args |-> NoCall, spec |-> NoneRef, nfw |-> 0,
               add_metadata |-> NoAddMetadata, lpad |-> NotSubmitted]
    /\ fws = <<>>
    /\ links = EmptyDict
    /\ metadata = EmptyDict
    /\ result = [op |-> "none", status |-> "none", time_secs |-> 0, final_fw_id |-> 0,
                 launch_dir |-> <<>>, order |-> <<>>, python |-> NoInterpreter,
     optimize |-> FALSE, max_str_digits |-> NoLimit]

\* builder(…) called once, with arguments c; b is what the constructor did
Construct(builder, c, b) ==
    /\ heap' = b.heap
    /\ fws' = b.fws
    /\ links' = b.links
    /\ metadata' = b.metadata
    /\ call' = [builder |-> builder, status |-> b.status, args |-> c,
                spec |-> CallerRef(c), nfw |-> Len(b.fws), add_metadata |-> NoAddMetadata,
                lpad |-> NotSubmitted]
    /\ UNCHANGED result

InputFWWorkflow(C, TaskTypes) ==
    /\ call.builder = "none"
    /\ \E c0 \in C, tt \in TaskTypes :
        LET c == [c0 EXCEPT !.task_type = tt]
        IN  Construct("InputFWWorkflow", c, InputFWWorkflow_init(CallerHeap(c), CallerRef(c), c))

ScfFWWorkflow(C) ==
    /\ call.builder = "none"
    /\ \E c \in C :
        Construct("ScfFWWorkflow", c, ScfFWWorkflow_init(CallerHeap(c), CallerRef(c), c))

RelaxFWWorkflow(C, Dilatmx) ==
    /\ call.builder = "none"
    /\ \E c0 \in C, td \in Dilatmx :
        LET c == [c0 EXCEPT !.target_dilatmx = td]
        IN  Construct("RelaxFWWorkflow", c, RelaxFWWorkflow_init(CallerHeap(c), CallerRef(c), c))

NscfFWWorkflow(C) ==
    /\ call.builder = "none"
    /\ \E c \in C :
        Construct("NscfFWWorkflow", c, NscfFWWorkflow_init(CallerHeap(c), CallerRef(c), c))

\* the constructors that read the structure of scf_inp run under one of
\* the interpreters
HybridOneShotFWWorkflow(C, Inputs) ==
    /\ call.builder = "none"
    /\ \E c0 \in C, scf_inp \in Inputs, python \in Interpreters :
        LET c == [c0 EXCEPT !.scf_inp = scf_inp]
        IN  Construct("HybridOneShotFWWorkflow", c,
                      HybridOneShotFWWorkflow_init(CallerHeap(c), CallerRef(c), c, python))

PhononFWWorkflow(C, Inputs) ==
    /\ call.builder = "none"
    /\ \E c0 \in C, scf_inp \in Inputs, python \in Interpreters :
        LET c == [c0 EXCEPT !.scf_inp = scf_inp]
        IN  Construct("PhononFWWorkflow", c,
                      PhononFWWorkflow_init(CallerHeap(c), CallerRef(c), c, python))

PiezoElasticFWWorkflow(C, Inputs) ==
    /\ call.builder = "none"
    /\ \E c0 \in C, scf_inp \in Inputs, python \in Interpreters :
        LET c == [c0 EXCEPT !.scf_inp = scf_inp]
        IN  Construct("PiezoElasticFWWorkflow", c,
                      PiezoElasticFWWorkflow_init(CallerHeap(c), CallerRef(c), c, python))

\* a workflow object exists and may take max more containers
CanAppend(max) == call.status = "ok" /\ result.op = "none" /\ Len(fws) - call.nfw < max

\* the graph after an append operation
Appended(w) ==
    /\ heap' = w.heap
    /\ fws' = w.fws
    /\ links' = w.links
    /\ UNCHANGED <<call, metadata, result>>

AddFinalCleanup ==
    /\ CanAppend(MaxAppend)
    /\ \E out_exts \in OutExts : Appended(add_final_cleanup(heap, fws, links, out_exts))

AddDbInsertAndCleanup ==
    /\ CanAppend(MaxAppend)
    /\ Appended(add_db_insert_and_cleanup(heap, fws, links, <<"WFK">>,
                                          "get_final_structure_and_history"))

AddAnaddbTask ==
    /\ CanAppend(MaxAppend)
    /\ Appended(add_anaddb_task(heap, fws, links))

AddMrgddbTask ==
    /\ CanAppend(MaxAppend)
    /\ call.builder = "PiezoElasticFWWorkflow"
    /\ Appended(add_mrgddb_task(heap, fws, links))

\* builder.add_to_db(lpad)
AddToDb(L) ==
    /\ call.status = "ok"
    /\ result.op = "none"
    /\ \E lpad \in L : call' = [call EXCEPT !.lpad = add_to_db(lpad)]
    /\ UNCHANGED <<heap, fws, links, metadata, result>>

\* the caller makes a container with spec d and hands it to append_fw
AppendFw(S, Shorts, max) ==
    /\ CanAppend(max)
    /\ \E d \in S, short_single_spec \in Shorts :
        LET a == Alloc(heap, d)
            f == Firework(a.heap, <<Task("AbiFireTask", FALSE, NoDeps)>>, a.ref, NoName,
                          Len(fws) + 1)
        IN  Appended(append_fw(f.heap, fws, links, f.fw, short_single_spec))

\* builder.add_metadata(structure, additional_metadata); the call record
\* keeps the arguments and the metadata of the graph before the call
AddMetadata(St, Additional, max) ==
    /\ call.status = "ok"
    /\ result.op = "none"
    /\ call.add_metadata.n < max
    /\ \E structure \in St, additional_metadata \in Additional :
        /\ metadata' = add_metadata(metadata, call.builder, structure, additional_metadata)
        /\ call' = [call EXCEPT !.add_metadata =
                        [n |-> @.n + 1, structure |-> structure,
                         additional_metadata |-> additional_metadata, before |-> metadata]]
    /\ UNCHANGED <<heap, fws, links, result>>

Next ==
    \/ InputFWWorkflow(Calls, {"AbiFireTask", "ScfFWTask"})
    \/ ScfFWWorkflow(Calls)
    \/ RelaxFWWorkflow(Calls, BOOLEAN)
    \/ NscfFWWorkflow(Calls)
    \/ HybridOneShotFWWorkflow(Calls, ScfInputs)
    \/ PhononFWWorkflow(Calls, ScfInputs)
    \/ PiezoElasticFWWorkflow(Calls, ScfInputs)
    \/ AddFinalCleanup
    \/ AddDbInsertAndCleanup
    \/ AddAnaddbTask
    \/ AddMrgddbTask
    \/ AppendFw(FwSpecs, BOOLEAN, MaxAppend)
    \/ AddToDb(Lpads)

Spec == Init /\ [][Next]_vars

-----------------------------------------------------------------------------
(* Result retrieval *)

\* wf.id_fw[fw_id]
id_fw(fireworks, fw_id) == fireworks[0 - fw_id]

\* the orders in which `for fw_id, fw in wf.id_fw.items()` may visit the
\* containers: the order of a dict is not fixed by the program
RECURSIVE Orders(_)
Orders(ids) ==
    IF ids = {} THEN {<<>>}
    ELSE UNION {{<<x>> \o o : o \in Orders(ids \ {x})} : x \in ids}

Raise(op, error) ==
    [op |-> op, status |-> error, time_secs |-> 0, final_fw_id |-> 0, launch_dir |-> <<>>,
     order |-> <<>>, python |-> NoInterpreter,
     optimize |-> FALSE, max_str_digits |-> NoLimit]

\* the two asserts every retrieval method starts with; an interpreter
\* started with -O compiles neither and does not read the metadata
AssertMetadata(md, workflow_class, workflow_module, optimize) ==
    IF optimize THEN "ok"
    ELSE IF "workflow_class" \notin DOMAIN md THEN "KeyError"
    ELSE IF md["workflow_class"] # workflow_class THEN "AssertionError"
    ELSE IF "workflow_module" \notin DOMAIN md THEN "KeyError"
    ELSE IF md["workflow_module"] # workflow_module THEN "AssertionError"
    ELSE "ok"

Last(s) == s[Len(s)]

\* a production container counted by its runtime alone
core_secs_one_cpu(runtime_secs, mpi_ncpus) == runtime_secs

\* `fw.launches[-1].runtime_secs * fw.spec['mpi_ncpus']`
core_secs(runtime_secs, mpi_ncpus) == runtime_secs * mpi_ncpus

\* the loop of get_runtime_secs over the containers still to visit
RECURSIVE RuntimeLoop(_, _, _, _)
RuntimeLoop(h, fireworks, order, time_secs) ==
    IF order = <<>>
    THEN [op |-> "get_runtime_secs", status |-> "ok", time_secs |-> time_secs,
          final_fw_id |-> 0, launch_dir |-> <<>>, order |-> <<>>, python |-> NoInterpreter,
     optimize |-> FALSE, max_str_digits |-> NoLimit]
    ELSE
    LET fw == id_fw(fireworks, Head(order))
        spec == h[fw.spec]
        rest == Tail(order)
    IN  IF "wf_task_index" \notin DOMAIN spec
        THEN RuntimeLoop(h, fireworks, rest, time_secs)
        ELSE
        LET wf_task_index == spec["wf_task_index"]
        IN  IF Tail_(wf_task_index, 9) = S_autoparal
            THEN IF fw.launches = <<>> THEN Raise("get_runtime_secs", "IndexError")
                 ELSE RuntimeLoop(h, fireworks, rest, time_secs + Last(fw.launches).runtime_secs)
            ELSE IF Head_(wf_task_index, 4) = S_ion_ \/ Head_(wf_task_index, 8) = S_ioncell_
            THEN IF fw.launches = <<>> THEN Raise("get_runtime_secs", "IndexError")
                 ELSE IF "mpi_ncpus" \notin DOMAIN spec THEN Raise("get_runtime_secs", "KeyError")
                 ELSE RuntimeLoop(h, fireworks, rest,
                                  time_secs + core_secs(Last(fw.launches).runtime_secs,
                                                        spec["mpi_ncpus"]))
            ELSE RuntimeLoop(h, fireworks, rest, time_secs)

\* RelaxFWWorkflow.get_runtime_secs(wf), the containers visited in `order`
get_runtime_secs(md, h, fireworks, order, optimize) ==
    LET a == AssertMetadata(md, RelaxFWWorkflow_class, RelaxFWWorkflow_module, optimize)
    IN  IF a # "ok" THEN Raise("get_runtime_secs", a)
        ELSE RuntimeLoop(h, fireworks, order, 0)

\* the comparison made against the initial -1 instead of the running
\* maximum: the last integer index visited wins
Better_than_initial(this_ioncell, ioncell) == Less(PyInt(0 - 1), this_ioncell)

\* the comparison made with >=: of equal indexes the one visited last is kept
Better_or_equal(this_ioncell, ioncell) == ~Less(this_ioncell, ioncell)

\* `if this_ioncell > ioncell`
Better(this_ioncell, ioncell) == Less(ioncell, this_ioncell)

\* the loop of get_final_structure_and_history: [ioncell, final_fw_id]
\* after the containers of `order` have been visited
\* one ioncell_ container visited (lines 215-222): `continue` when its
\* index is no integer, kept when its index is better than the best so far
Visit(best, fw_id, this_ioncell) ==
    IF ~this_ioncell.ok THEN best
    ELSE IF Better(this_ioncell.val, best.ioncell)
    THEN [ioncell |-> this_ioncell.val, final_fw_id |-> fw_id]
    ELSE best

RECURSIVE FinalLoop(_, _, _, _, _, _)
FinalLoop(h, fireworks, order, best, python, max_str_digits) ==
    IF order = <<>> THEN best
    ELSE
    LET fw_id == Head(order)
        spec == h[id_fw(fireworks, fw_id).spec]
        rest == Tail(order)
    IN  IF "wf_task_index" \in DOMAIN spec /\ Head_(spec["wf_task_index"], 8) = S_ioncell_
        THEN FinalLoop(h, fireworks, rest,
                       Visit(best, fw_id,
                             int(SplitLast(spec["wf_task_index"]), python, max_str_digits)),
                       python, max_str_digits)
        ELSE FinalLoop(h, fireworks, rest, best, python, max_str_digits)

\* `if final_fw_id is None: raise RuntimeError(...)`; 0 stands for None
NotFound(final_fw_id) == final_fw_id = 0

\* lines 227-233: the last launch of the container found, the archived
\* launches before the others
LastLaunch(final_fw_id, all_launches, order, python) ==
    IF all_launches = <<>> THEN Raise("get_final_structure_and_history", "IndexError")
    ELSE [op |-> "get_final_structure_and_history", status |-> "ok", time_secs |-> 0,
          final_fw_id |-> final_fw_id,
          launch_dir |-> Last(all_launches).launch_dir, order |-> order,
          python |-> python, optimize |-> FALSE, max_str_digits |-> NoLimit]

\* lines 223-227: RuntimeError when the loop found no container, else the
\* launches of the one it found
FinalFw(final_fw_id, fireworks, order, python) ==
    IF NotFound(final_fw_id) THEN Raise("get_final_structure_and_history", "RuntimeError")
    ELSE LastLaunch(final_fw_id,
                    id_fw(fireworks, final_fw_id).archived_launches
                        \o id_fw(fireworks, final_fw_id).launches,
                    order, python)

\* RelaxFWWorkflow.get_final_structure_and_history(wf), the containers
\* visited in `order`; the structure and the history are read from the
\* launch directory of the last launch of the container found; the result
\* keeps the order of the visit
get_final_structure_and_history(md, h, fireworks, order, python, optimize, max_str_digits) ==
    LET a == AssertMetadata(md, RelaxFWWorkflow_class, RelaxFWWorkflow_module, optimize)
    IN  IF a # "ok" THEN Raise("get_final_structure_and_history", a)
        ELSE FinalFw(FinalLoop(h, fireworks, order,
                               [ioncell |-> PyInt(0 - 1), final_fw_id |-> 0],
                               python, max_str_digits).final_fw_id,
                     fireworks, order, python)

-----------------------------------------------------------------------------
(* The workflow after submission: launches and retrieval.  A retrieval     *)
(* call reads the graph and changes nothing in it, so a behaviour makes    *)
(* one, as its last step: `result` then describes the graph of the same    *)
(* state.                                                                  *)

\* launch records the engine may leave on a container that ran:
\* [archived_launches, launches]
Launch(fw_id, k, runtime_secs) == [launch_dir |-> <<fw_id, k>>, runtime_secs |-> runtime_secs]

\* relaunched: a first launch archived and two launches since;
\* archived: one launch, archived
LaunchHistories(fw_id) ==
    [relaunched |-> [archived_launches |-> <<Launch(fw_id, 1, 10)>>,
                     launches |-> <<Launch(fw_id, 2, 10), Launch(fw_id, 3, 20)>>],
     archived |-> [archived_launches |-> <<Launch(fw_id, 1, 20)>>, launches |-> <<>>]]

\* the engine runs a container of a submitted graph whose predecessors
\* have completed; a container whose launches are all archived waits to be
\* run again, and its successors wait for it; Histories names the launch
\* histories the engine leaves
EngineLaunch(Histories) ==
    /\ call.status = "ok"
    /\ call.lpad # NotSubmitted
    /\ result.op = "none"
    /\ \E i \in 1..Len(fws) :
        /\ fws[i].launches = <<>> /\ fws[i].archived_launches = <<>>
        /\ \A j \in 1..Len(fws) :
              fws[i].fw_id \in links[fws[j].fw_id] => fws[j].launches # <<>>
        /\ \E history \in Histories :
              fws' = [fws EXCEPT
                         ![i].launches = LaunchHistories(fws[i].fw_id)[history].launches,
                         ![i].archived_launches =
                             LaunchHistories(fws[i].fw_id)[history].archived_launches]
    /\ UNCHANGED <<heap, call, links, metadata, result>>

GetRuntimeSecs ==
    /\ call.status = "ok"
    /\ result.op = "none"
    /\ \E order \in Orders(DOMAIN links), optimize \in Optimize :
          result' = [get_runtime_secs(metadata, heap, fws, order, optimize)
                        EXCEPT !.optimize = optimize]
    /\ UNCHANGED <<heap, call, fws, links, metadata>>

GetFinalStructureAndHistory ==
    /\ call.status = "ok"
    /\ result.op = "none"
    /\ \E order \in Orders(DOMAIN links), python \in Interpreters, optimize \in Optimize :
       \E max_str_digits \in IntMaxStrDigits(python) :
          result' = [get_final_structure_and_history(metadata, heap, fws, order,
                                                     python, optimize, max_str_digits)
                        EXCEPT !.python = python, !.optimize = optimize,
                               !.max_str_digits = max_str_digits]
    /\ UNCHANGED <<heap, call, fws, links, metadata>>

\* number of containers added to a relaxation workflow before it ran
MaxFollowUp == 1

Idx(stage, suffix) == stage \o suffix

\* specs of the follow-up containers of a workflow whose run time is
\* asked for: no index, production runs on 4 and 2 cpus, an autoparal run,
\* a production run that names no cpus
RunFwSpecs ==
    { EmptyDict,
      Put(Put(EmptyDict, "wf_task_index", Idx(S_ioncell_, str(2))), "mpi_ncpus", 4),
      Put(Put(EmptyDict, "wf_task_index", Idx(S_ioncell_, str(1))), "mpi_ncpus", 2),
      Put(Put(EmptyDict, "wf_task_index", Idx(S_ion_, S_autoparal)), "mpi_ncpus", 1),
      Put(EmptyDict, "wf_task_index", Idx(S_ioncell_, str(0 - 1))) }

\* specs of the follow-up containers of a workflow whose final structure
\* is asked for: the indexes 2, 1 and -1, and three indexes that are
\* integers to some interpreters only: a tab and a digit of Unicode 13.0,
\* a sign parted from its digit, more digits than the smallest digit limit
FinalFwSpecs ==
    { Put(Put(EmptyDict, "wf_task_index", Idx(S_ioncell_, str(2))), "mpi_ncpus", 4),
      Put(Put(EmptyDict, "wf_task_index", Idx(S_ioncell_, str(1))), "mpi_ncpus", 2),
      Put(EmptyDict, "wf_task_index", Idx(S_ioncell_, str(0 - 1))),
      Put(Put(EmptyDict, "wf_task_index", Idx(S_ioncell_, S_tab_segmented_3)), "mpi_ncpus", 2),
      Put(Put(EmptyDict, "wf_task_index", Idx(S_ioncell_, S_minus_space_0)), "mpi_ncpus", 2),
      Put(Put(EmptyDict, "wf_task_index", Idx(S_ioncell_, S_ones)), "mpi_ncpus", 2) }

RunCalls ==
    { [NoCall EXCEPT !.spec_given = sg,
                     !.spec = IF sg THEN Put(EmptyDict, "mpi_ncpus", 4) ELSE EmptyDict,
                     !.autoparal = ap] :
        sg \in BOOLEAN, ap \in BOOLEAN }

\* additional_metadata that names RelaxFWWorkflow as the class and the
\* module of the workflow, whichever builder made the graph
RelaxLabels ==
    { [given |-> TRUE,
       map |-> Put(Put(EmptyDict, "workflow_class", RelaxFWWorkflow_class),
                   "workflow_module", RelaxFWWorkflow_module)] }

\* the follow-up steps made so far: containers appended and add_metadata
\* calls
FollowUps == (Len(fws) - call.nfw) + call.add_metadata.n

\* a container is appended to the workflow before it runs
FollowUpFw(Specs) == FollowUps < MaxFollowUp /\ AppendFw(Specs, {FALSE}, MaxFollowUp)

\* the workflow is labelled a relaxation workflow before it runs
FollowUpMetadata ==
    FollowUps < MaxFollowUp /\ AddMetadata({NoStructure}, RelaxLabels, MaxFollowUp)

\* a workflow is built, extended, submitted and run, and its run time is
\* asked for
NextRuntime ==
    \/ RelaxFWWorkflow(RunCalls, {FALSE})
    \/ PhononFWWorkflow({NoCall}, {AbinitInput(Silicon)})
    \/ ScfFWWorkflow({NoCall})
    \/ FollowUpFw(RunFwSpecs)
    \/ FollowUpMetadata
    \/ AddToDb({"lpad"})
    \/ EngineLaunch({"relaunched", "archived"})
    \/ GetRuntimeSecs

SpecRuntime == Init /\ [][NextRuntime]_vars

\* the constructor calls of a relaxation workflow that differ in the
\* indexes of its containers: with and without autoparal
FinalCalls == { [NoCall EXCEPT !.autoparal = ap] : ap \in BOOLEAN }

\* a workflow is built, extended, submitted and run, and its final
\* structure is asked for
NextRetrieval ==
    \/ RelaxFWWorkflow(FinalCalls, {FALSE})
    \/ PhononFWWorkflow({NoCall}, {AbinitInput(Silicon)})
    \/ ScfFWWorkflow({NoCall})
    \/ FollowUpFw(FinalFwSpecs)
    \/ FollowUpMetadata
    \/ AddToDb({"lpad"})
    \/ EngineLaunch({"relaunched"})
    \/ GetFinalStructureAndHistory

SpecRetrieval == Init /\ [][NextRetrieval]_vars

-----------------------------------------------------------------------------
(* Metadata attached after construction *)

\* structures handed to add_metadata: none, two Si sites, no site at all
Structures ==
    { NoStructure,
      Silicon,
      [given |-> TRUE, nsites |-> 0, elements |-> <<>>, reduced_formula |-> ""] }

\* additional_metadata handed to add_metadata: left out, empty, a field of
\* the caller's own, fields named like the derived ones, a field named like
\* one the constructor attached
AdditionalMetadata ==
    { NoAdditionalMetadata,
      [given |-> TRUE, map |-> EmptyDict],
      [given |-> TRUE, map |-> Put(EmptyDict, "user_tag", "x")],
      [given |-> TRUE, map |-> Put(Put(EmptyDict, "nsites", 99), "wf_type", "custom")],
      [given |-> TRUE, map |-> Put(EmptyDict, "workflow_class", "custom")] }

NextMetadata ==
    \/ InputFWWorkflow({NoCall}, {"AbiFireTask"})
    \/ ScfFWWorkflow({NoCall})
    \/ RelaxFWWorkflow({NoCall}, {FALSE})
    \/ NscfFWWorkflow({NoCall})
    \/ HybridOneShotFWWorkflow({NoCall}, {AbinitInput(Silicon)})
    \/ PhononFWWorkflow({NoCall}, {AbinitInput(Silicon)})
    \/ PiezoElasticFWWorkflow({NoCall}, {AbinitInput(Silicon)})
    \/ AddMetadata(Structures, AdditionalMetadata, MaxAddMetadata)

SpecMetadata == Init /\ [][NextMetadata]_vars

-----------------------------------------------------------------------------
(* Properties of the assembled graph *)

\* the execution specification of the i-th container
SpecOf(i) == heap[fws[i].spec]

\* the containers the constructor built
Constructed == 1..call.nfw

\* C1: every container of the graph a constructor returns has the key
\* initialization_info in its spec, bound to the initialization_info the
\* caller supplied (an empty mapping when none was supplied)
C1_InitializationInfoEverywhere ==
    call.status = "ok" =>
        \A i \in Constructed :
            /\ "initialization_info" \in DOMAIN SpecOf(i)
            /\ SpecOf(i)["initialization_info"] = InfoOrEmpty(call.args)

\* C2: with autoparal=True every container of the constructed graph has
\* mpi_ncpus = 1 and _queueadapter = the short single-core profile,
\* whatever the caller's spec held under these keys
C2_AutoparalSingleCore ==
    (call.status = "ok" /\ call.args.autoparal) =>
        \A i \in Constructed :
            /\ "mpi_ncpus" \in DOMAIN SpecOf(i)
            /\ SpecOf(i)["mpi_ncpus"] = 1
            /\ "_queueadapter" \in DOMAIN SpecOf(i)
            /\ SpecOf(i)["_queueadapter"] = get_short_single_core_spec

\* an autoparal graph of several containers built over a caller spec that
\* asked for 4 cpus and another queue
C2_Witness ==
    /\ call.status = "ok"
    /\ call.args.autoparal
    /\ call.args.spec_given
    /\ "mpi_ncpus" \in DOMAIN call.args.spec
    /\ call.args.spec["mpi_ncpus"] = 4
    /\ call.nfw >= 3

\* the containers reached from `from` along precedence edges in at most
\* n steps
RECURSIVE ReachWithin(_, _, _)
ReachWithin(lk, from, n) ==
    IF n = 0 THEN from
    ELSE ReachWithin(lk, from \cup UNION {lk[p] : p \in from}, n - 1)

Descendants(lk, p) == ReachWithin(lk, lk[p], Cardinality(DOMAIN lk))

Acyclic(lk) == \A p \in DOMAIN lk : p \notin Descendants(lk, p)

\* C3: after a constructor and any sequence of append operations the
\* precedence relation is acyclic and every container is reached from the
\* first container the constructor built
C3_AcyclicAndConnected ==
    call.status = "ok" =>
        /\ \A p \in DOMAIN links : links[p] \subseteq DOMAIN links
        /\ DOMAIN links = {fws[i].fw_id : i \in 1..Len(fws)}
        /\ Acyclic(links)
        /\ \A p \in DOMAIN links : p = fws[1].fw_id \/ p \in Descendants(links, fws[1].fw_id)

\* the three-stage graph with its analysis container and two appended ones
C3_Witness ==
    /\ call.status = "ok"
    /\ call.builder = "PiezoElasticFWWorkflow"
    /\ Len(fws) = call.nfw + 2
    /\ Cardinality(Descendants(links, fws[1].fw_id)) = 5

\* the containers that precede p directly
Predecessors(lk, p) == {q \in DOMAIN lk : p \in lk[q]}

\* what add_final_cleanup does to a graph whose terminal containers are T
C4_Post ==
    LET T == leaf_fw_ids(links)
        new == fws'[Len(fws')].fw_id
    IN  /\ Len(fws') = Len(fws) + 1
        /\ DOMAIN links' = (DOMAIN links) \cup {new}
        /\ new \notin DOMAIN links
        /\ \A i \in 1..Len(fws) : fws'[i] = fws[i] /\ heap'[fws[i].spec] = heap[fws[i].spec]
        /\ \A p \in DOMAIN links : links[p] \subseteq links'[p]
        /\ Predecessors(links', new) = T
        /\ leaf_fw_ids(links') = {new}
        /\ "FinalCleanUpTask" \in {fws'[Len(fws')].tasks[k].cls : k \in 1..Len(fws'[Len(fws')].tasks)}

\* C4: add_final_cleanup adds exactly one container, keeps every existing
\* container and edge, and the new container has exactly the former
\* terminal containers as predecessors and is the only terminal one
C4_FinalCleanupAppendsTerminal == [][AddFinalCleanup => C4_Post]_vars

\* a cleanup container sits at the end of a graph, after the containers
\* the constructor built
C4_Witness ==
    /\ call.status = "ok"
    /\ Len(fws) > call.nfw
    /\ fws[Len(fws)].tasks[1].cls = "FinalCleanUpTask"
    /\ "_priority" \in DOMAIN SpecOf(Len(fws))
    /\ Predecessors(links, fws[Len(fws)].fw_id) = {fws[Len(fws) - 1].fw_id}

-----------------------------------------------------------------------------
(* Properties of result retrieval *)

StartsWith(s, prefix) == Len(s) >= Len(prefix) /\ SubSeq(s, 1, Len(prefix)) = prefix

EndsWith(s, suffix) ==
    Len(s) >= Len(suffix) /\ SubSeq(s, Len(s) - Len(suffix) + 1, Len(s)) = suffix

Tagged(i) == "wf_task_index" \in DOMAIN SpecOf(i)

IsAutoparalRun(i) == Tagged(i) /\ EndsWith(SpecOf(i)["wf_task_index"], S_autoparal)

IsProductionRun(i) ==
    /\ Tagged(i)
    /\ ~EndsWith(SpecOf(i)["wf_task_index"], S_autoparal)
    /\ \/ StartsWith(SpecOf(i)["wf_task_index"], S_ion_)
       \/ StartsWith(SpecOf(i)["wf_task_index"], S_ioncell_)

MetadataMatches ==
    /\ "workflow_class" \in DOMAIN metadata
    /\ "workflow_module" \in DOMAIN metadata
    /\ metadata["workflow_class"] = RelaxFWWorkflow_class
    /\ metadata["workflow_module"] = RelaxFWWorkflow_module

\* the container has what its term of the sum is made of
Accountable(i) ==
    /\ (IsAutoparalRun(i) \/ IsProductionRun(i)) => fws[i].launches # <<>>
    /\ IsProductionRun(i) => "mpi_ncpus" \in DOMAIN SpecOf(i)

Contribution(i) ==
    IF IsAutoparalRun(i) THEN fws[i].launches[Len(fws[i].launches)].runtime_secs
    ELSE IF IsProductionRun(i)
    THEN fws[i].launches[Len(fws[i].launches)].runtime_secs * SpecOf(i)["mpi_ncpus"]
    ELSE 0

RECURSIVE TotalRuntime(_)
TotalRuntime(n) == IF n = 0 THEN 0 ELSE TotalRuntime(n - 1) + Contribution(n)

C5_Post ==
    /\ (MetadataMatches /\ \A i \in 1..Len(fws) : Accountable(i))
          => result.status = "ok" /\ result.time_secs = TotalRuntime(Len(fws))
    /\ result.status = "ok" => result.time_secs = TotalRuntime(Len(fws))
    /\ (result.status = "ok" /\ ~result.optimize) => MetadataMatches

\* C5: on a graph with matching metadata get_runtime_secs returns the sum
\* over all containers of the last launch's runtime for an index ending in
\* 'autoparal', of runtime times mpi_ncpus for an 'ion_' or 'ioncell_'
\* index not ending in 'autoparal', and of 0 for any other container
C5_RuntimeIsCoreSeconds == result.op = "get_runtime_secs" => C5_Post

\* a total returned for a graph with an autoparal container and a
\* production container on 4 cpus whose last launch ran 20 seconds
C5_Witness ==
    /\ result.op = "get_runtime_secs"
    /\ result.status = "ok"
    /\ \A i \in 1..Len(fws) : Accountable(i)
    /\ result.time_secs = TotalRuntime(Len(fws))
    /\ \E i \in 1..Len(fws) : IsAutoparalRun(i) /\ Contribution(i) = 20
    /\ \E i \in 1..Len(fws) :
          /\ IsProductionRun(i)
          /\ SpecOf(i)["mpi_ncpus"] = 4
          /\ Len(fws[i].launches) = 2
          /\ Contribution(i) = 80

\* the integer after the last underscore of an 'ioncell_' index
IoncellIndex(i) ==
    IF Tagged(i) /\ StartsWith(SpecOf(i)["wf_task_index"], S_ioncell_)
    THEN int(SplitLast(SpecOf(i)["wf_task_index"]), result.python, result.max_str_digits)
    ELSE [ok |-> FALSE, val |-> PyInt(0)]

HasIoncellInteger == \E i \in 1..Len(fws) : IoncellIndex(i).ok

NoResult(r) == r.status # "ok" /\ r.final_fw_id = 0 /\ r.launch_dir = <<>>

C6_Post ==
    LET found == MetadataMatches /\ HasIoncellInteger
    IN  /\ result.status = "ok" => found
        /\ ~found => NoResult(result)

\* C6: get_final_structure_and_history returns a result only when the
\* metadata is RelaxFWWorkflow's and some container is indexed
\* 'ioncell_<integer>'; otherwise it raises and returns nothing
C6_ResultOnlyWhenFound == result.op = "get_final_structure_and_history" => C6_Post

\* what C6 states holds of the calls made with the asserts compiled: they
\* fail on metadata that are not RelaxFWWorkflow's, and "not found" when
\* no container is indexed 'ioncell_<integer>'
C6_WithAssertsCompiled ==
    (result.op = "get_final_structure_and_history" /\ ~result.optimize) =>
        /\ C6_Post
        /\ ~MetadataMatches => result.status \in {"AssertionError", "KeyError"}
        /\ (MetadataMatches /\ ~HasIoncellInteger) => result.status = "RuntimeError"

C7_Post ==
    /\ result.status = "ok" =>
          LET sel == 0 - result.final_fw_id
          IN  /\ sel \in 1..Len(fws)
              /\ LET selected == IoncellIndex(sel)
                 IN  /\ selected.ok
                     /\ \A i \in 1..Len(fws) :
                           LET this == IoncellIndex(i)
                           IN  this.ok => ~Less(selected.val, this.val)
    /\ (MetadataMatches /\ \E i \in 1..Len(fws) :
                              LET this == IoncellIndex(i)
                              IN  this.ok /\ ~Less(this.val, PyInt(0)))
          => result.status \in {"ok", "IndexError"}

\* C7: the container selected carries the greatest integer 'ioncell_'
\* index; an 'ioncell_' index whose suffix is no integer is passed over
\* without an error, and no other container is ever selected
C7_SelectsMaximum == result.op = "get_final_structure_and_history" => C7_Post

\* 'ioncell_2' was selected from a graph that also holds 'ioncell_1'
C7_Witness ==
    /\ result.op = "get_final_structure_and_history"
    /\ result.status = "ok"
    /\ 0 - result.final_fw_id \in 1..Len(fws)
    /\ SpecOf(0 - result.final_fw_id)["wf_task_index"] = S_ioncell_ \o str(2)
    /\ \E i \in 1..Len(fws) : IoncellIndex(i).ok /\ IoncellIndex(i).val = PyInt(1)

-----------------------------------------------------------------------------
(* Properties of the wiring, the metadata and the copies *)

\* container a precedes container b directly, and b's task declares that
\* it needs output category ext of a's task type
Wired(a, b, ext) ==
    /\ fws[b].fw_id \in links[fws[a].fw_id]
    /\ fws[a].fw_id \notin Descendants(links, fws[b].fw_id)
    /\ fws[b].tasks[1].deps.kind = "dict"
    /\ <<fws[a].tasks[1].task_type, ext>> \in fws[b].tasks[1].deps.map

\* C8: in every builder with dependent stages the producing container
\* precedes the consuming one and the consumer's dependency mapping holds
\* {producer.task_type: category}
C8_DependenciesWired ==
    call.status = "ok" =>
        /\ call.builder = "NscfFWWorkflow" => Wired(1, 2, "DEN")
        /\ call.builder = "HybridOneShotFWWorkflow" => Wired(1, 2, "WFK")
        /\ call.builder = "PiezoElasticFWWorkflow" =>
              /\ Wired(1, 2, "WFK")
              /\ Wired(2, 3, "DDK")
              /\ fws[3].fw_id \in Descendants(links, fws[1].fw_id)
              /\ <<fws[1].tasks[1].task_type, "WFK">> \in fws[3].tasks[1].deps.map

\* the module that defines the builders
ThisModule == "abiflows.fireworks.workflows.abinit_workflows"

\* C9: every constructor attaches metadata whose workflow_class and
\* workflow_module name the class and the module of the builder
C9_MetadataNamesBuilder ==
    call.status = "ok" =>
        /\ "workflow_class" \in DOMAIN metadata
        /\ "workflow_module" \in DOMAIN metadata
        /\ metadata["workflow_class"] = call.builder
        /\ metadata["workflow_module"] = ThisModule

\* the index the constructor gave a stage: '<stage>1' or '<stage>autoparal'
StageIndex(stage) == stage \o (IF call.args.autoparal THEN S_autoparal ELSE str(1))

\* C10: the caller's spec mapping holds after the call, and ever after,
\* what it held before; no two containers share a spec object, nor does one
\* share the caller's; the relaxation stages keep 'ion_<index>' and
\* 'ioncell_<index>' apart
C10_SpecsNeverAliased ==
    /\ call.args.spec_given => heap[call.spec] = call.args.spec
    /\ \A i \in 1..Len(fws) :
          /\ fws[i].spec # call.spec
          /\ \A j \in 1..Len(fws) : i # j => fws[i].spec # fws[j].spec
    /\ (call.status = "ok" /\ call.builder = "RelaxFWWorkflow") =>
          /\ SpecOf(1)["wf_task_index"] = StageIndex(S_ion_)
          /\ SpecOf(2)["wf_task_index"] = StageIndex(S_ioncell_)
    /\ (call.status = "ok" /\ call.builder = "PhononFWWorkflow") =>
          /\ SpecOf(1)["wf_task_index"] = StageIndex(S_scf_)
          /\ SpecOf(2)["wf_task_index"] = S_gen_ph

\* a relaxation graph built from a caller's non-empty spec, with a
\* container appended under the short single-core profile
C10_Witness ==
    /\ call.status = "ok"
    /\ call.builder = "RelaxFWWorkflow"
    /\ call.args.spec_given
    /\ DOMAIN call.args.spec # {}
    /\ DOMAIN heap[call.spec] = DOMAIN call.args.spec
    /\ SpecOf(1)["wf_task_index"] # SpecOf(2)["wf_task_index"]
    /\ Len(fws) > call.nfw

-----------------------------------------------------------------------------
(* Properties of the stage indexes *)

\* s reads '<stage>_<index>': a stage, an underscore and an index that is
\* the autoparal marker for an autoparal builder and an integer otherwise
StageUnderscoreIndex(s, autoparal) ==
    LET index == SplitLast(s)
    IN  /\ Len(s) > Len(index) + 1
        /\ s[Len(s) - Len(index)] = "_"
        /\ IF autoparal THEN index = S_autoparal
           ELSE \A python \in Interpreters :
                   \A max_str_digits \in IntMaxStrDigits(python) :
                       int(index, python, max_str_digits).ok

TaggingBuilder == call.builder \in {"RelaxFWWorkflow", "PhononFWWorkflow"}

DistinctIndexes ==
    \A i, j \in Constructed :
        i # j => SpecOf(i)["wf_task_index"] # SpecOf(j)["wf_task_index"]

\* C11 as stated: in every graph built by RelaxFWWorkflow or
\* PhononFWWorkflow the wf_task_index values of the containers are pairwise
\* distinct and every one reads '<stage>_<index>', the index an integer
\* without autoparal and the marker 'autoparal' with it
C11_EveryIndexStageUnderscoreIndex ==
    (call.status = "ok" /\ TaggingBuilder) =>
        /\ \A i \in Constructed : Tagged(i)
        /\ DistinctIndexes
        /\ \A i \in Constructed :
              StageUnderscoreIndex(SpecOf(i)["wf_task_index"], call.args.autoparal)

\* C11 amended: the values are pairwise distinct; both containers of
\* RelaxFWWorkflow and the scf container of PhononFWWorkflow read
\* '<stage>_<index>' with an integer index without autoparal and the marker
\* 'autoparal' with it; the generation container of PhononFWWorkflow
\* carries 'gen_ph' with and without autoparal
C11_IndexesDistinctAndStaged ==
    (call.status = "ok" /\ TaggingBuilder) =>
        /\ \A i \in Constructed : Tagged(i)
        /\ DistinctIndexes
        /\ StageUnderscoreIndex(SpecOf(1)["wf_task_index"], call.args.autoparal)
        /\ call.builder = "RelaxFWWorkflow" =>
              StageUnderscoreIndex(SpecOf(2)["wf_task_index"], call.args.autoparal)
        /\ call.builder = "PhononFWWorkflow" => SpecOf(2)["wf_task_index"] = S_gen_ph

\* a relaxation graph built with autoparal, both indexes carrying the marker
C11_Witness ==
    /\ call.status = "ok"
    /\ call.builder = "RelaxFWWorkflow"
    /\ call.args.autoparal
    /\ call.nfw = 2
    /\ SplitLast(SpecOf(1)["wf_task_index"]) = S_autoparal
    /\ SplitLast(SpecOf(2)["wf_task_index"]) = S_autoparal
    /\ SpecOf(1)["wf_task_index"] # SpecOf(2)["wf_task_index"]

-----------------------------------------------------------------------------
(* Properties of add_metadata *)

\* the arguments of the last add_metadata call
GivenStructure == call.add_metadata.structure
GivenAdditional ==
    IF call.add_metadata.additional_metadata.given
    THEN call.add_metadata.additional_metadata.map
    ELSE EmptyDict

\* the fields add_metadata derives, when it derives them
Derived ==
    [k \in {"nsites", "elements", "reduced_formula"} |->
        IF k = "nsites" THEN GivenStructure.nsites
        ELSE IF k = "elements" THEN GivenStructure.elements
        ELSE GivenStructure.reduced_formula]

Holds(md, k, v) == k \in DOMAIN md /\ md[k] = v

CallerSideKept == \A k \in DOMAIN GivenAdditional : Holds(metadata, k, GivenAdditional[k])

EarlierKeysKept == DOMAIN call.add_metadata.before \subseteq DOMAIN metadata

\* C12 as stated: after add_metadata(structure, additional_metadata) the
\* metadata holds nsites, elements and reduced_formula as derived from the
\* structure and every field of additional_metadata as the caller gave it,
\* whatever the keys of additional_metadata are, and the keys the graph had
\* before are still there (read for the structures that have sites)
C12_BothSidesKept ==
    (call.add_metadata.n > 0 /\ Truthy(GivenStructure)) =>
        /\ \A k \in DOMAIN Derived : Holds(metadata, k, Derived[k])
        /\ CallerSideKept
        /\ EarlierKeysKept

\* C12 amended: after the call the metadata holds every field of
\* additional_metadata as the caller gave it; it holds wf_type, and for a
\* structure with at least one site nsites, elements and reduced_formula,
\* each with the value of the class or the structure unless
\* additional_metadata has a field of that name, whose value then replaces
\* it; the keys the graph had before are still there, with their values
\* where the call wrote no field of that name, and no other key appears
C12_CallerValueReplacesDerived ==
    call.add_metadata.n > 0 =>
        LET written == DOMAIN GivenAdditional \cup {"wf_type"} \cup
                       (IF Truthy(GivenStructure) THEN DOMAIN Derived ELSE {})
        IN  /\ CallerSideKept
            /\ "wf_type" \in DOMAIN metadata
            /\ "wf_type" \notin DOMAIN GivenAdditional => metadata["wf_type"] = call.builder
            /\ Truthy(GivenStructure) =>
                  \A k \in DOMAIN Derived :
                      /\ k \in DOMAIN metadata
                      /\ k \notin DOMAIN GivenAdditional => metadata[k] = Derived[k]
            /\ EarlierKeysKept
            /\ \A k \in DOMAIN call.add_metadata.before \ written :
                  metadata[k] = call.add_metadata.before[k]
            /\ DOMAIN metadata = DOMAIN call.add_metadata.before \cup written

\* a relaxation graph given a structure of two sites and additional
\* metadata with its own nsites: the caller's nsites is what the graph
\* holds, next to the elements of the structure and the constructor's keys
C12_Witness ==
    /\ call.builder = "RelaxFWWorkflow"
    /\ call.add_metadata.n > 0
    /\ Truthy(GivenStructure)
    /\ "nsites" \in DOMAIN GivenAdditional
    /\ GivenAdditional["nsites"] # GivenStructure.nsites
    /\ "nsites" \notin DOMAIN call.add_metadata.before
    /\ "workflow_class" \in DOMAIN call.add_metadata.before
    /\ Holds(metadata, "nsites", GivenAdditional["nsites"])
    /\ Holds(metadata, "elements", GivenStructure.elements)
    /\ Holds(metadata, "workflow_class", RelaxFWWorkflow_class)

-----------------------------------------------------------------------------
(* Properties of the selection among equal indexes *)

Selected ==
    /\ result.op = "get_final_structure_and_history"
    /\ result.status = "ok"

\* the containers that carry the greatest integer 'ioncell_' index
MaximalContainers ==
    { i \in 1..Len(fws) :
        LET this == IoncellIndex(i)
        IN  /\ this.ok
            /\ \A j \in 1..Len(fws) :
                  LET other == IoncellIndex(j)
                  IN  other.ok => ~Less(this.val, other.val) }

\* when the call visited the container fw_id
Visited(fw_id) == CHOOSE p \in 1..Len(result.order) : result.order[p] = fw_id

Tie == Cardinality(MaximalContainers) >= 2

\* C13 as stated: of two or more containers carrying the same greatest
\* integer 'ioncell_' index, get_final_structure_and_history selects the one
\* it visits last
C13_LastFoundWins ==
    Selected =>
        LET maximal == MaximalContainers
        IN  Cardinality(maximal) >= 2 =>
                \A i \in maximal : Visited(fws[i].fw_id) <= Visited(result.final_fw_id)

\* C13 amended: of two or more containers carrying the same greatest
\* integer 'ioncell_' index, get_final_structure_and_history selects the one
\* it visits first
C13_FirstFoundWins ==
    Selected =>
        LET maximal == MaximalContainers
        IN  Cardinality(maximal) >= 2 =>
                /\ 0 - result.final_fw_id \in maximal
                /\ \A i \in maximal : Visited(result.final_fw_id) <= Visited(fws[i].fw_id)

\* two containers indexed 'ioncell_1', the second built by the constructor
\* and a follow-up; the follow-up was visited first and is the one selected
C13_Witness ==
    /\ Selected
    /\ Tie
    /\ call.nfw = 2
    /\ 2 \in MaximalContainers
    /\ 0 - result.final_fw_id > call.nfw
    /\ Visited(result.final_fw_id) < Visited(fws[2].fw_id)

====
